---- MODULE Spec2Model ----
(***************************************************************************)
(* FsmOS: cooperative scheduler, task lifecycle and global message queue.  *)
(*                                                                         *)
(* The model follows src/FsmOS/FsmOS.cpp together with the header that     *)
(* declares what it implements, src/lib/FsmOS/FsmOS.h.                     *)
(*                                                                         *)
(* A Task object is an element of Tasks; its fields are functions over     *)
(* Tasks.  stateAndPriority packs two nibbles; they are kept apart here    *)
(* as state and priority.  The task list (taskHead .. taskTail) is the     *)
(* sequence taskList, the queue (msgHead .. msgTail) is the sequence       *)
(* msgQueue, the two free-lists are kept as node counts.                   *)
(*                                                                         *)
(* loopOnce() calls user code (on_msg, step).  Every stretch of kernel     *)
(* code between two entries into user code is one action; pc is the        *)
(* position of the single thread of control:                               *)
(*   "idle"    outside loopOnce (application main loop),                   *)
(*   "deliver" at the top of the while loop of processMessages,            *)
(*   "on_msg"  inside Task::on_msg of curTask, node curMsg detached,       *)
(*   "step"    inside Task::step of curTask.                               *)
(*                                                                         *)
(* malloc is taken to succeed (no heap exhaustion).                        *)
(*                                                                         *)
(* The clock with the per-task delay statistics, and the MsgDataPool with  *)
(* its SharedMsg handles, have their own specifications (SpecTiming,       *)
(* SpecPool) over the same variables.  So have the reset cause (SpecReset),*)
(* SharedMsg and Mutex with interrupt routines (SpecIsr, SpecMutex), where *)
(* avrBuild tells whether __AVR__ is defined, and TimerT (SpecTimer).      *)
(* SpecTick logs the order of the stages of a tick, SpecStats runs         *)
(* updateTaskStatistics, and SpecReplyFair and SpecStarveFair are the      *)
(* scheduler under weak fairness of the kernel steps and of the return of  *)
(* user code.                                                              *)
(***************************************************************************)
EXTENDS Integers, Sequences, FiniteSets, TLC

(* ------------------------------ bounds --------------------------------- *)
\* number of Task objects the application has constructed
NumTasks == 2
\* largest period the application passes to setPeriod
MaxPeriod == 2
\* number of tell/publish calls recorded in one run
MaxCalls == 2
\* number of admissions in one run of Spec (SpecAdmit has no such cap)
MaxAdmissions == 2
\* compile-time option (#ifndef MAX_MESSAGE_POOL_SIZE, default 32): the
\* model is built with a small queue so that a full queue is reached
MAX_MESSAGE_POOL_SIZE == 2

\* the MsgDataPool is checked in a build with this MAX_MESSAGE_POOL_SIZE
\* (poolLimit), large enough for the adaptive size to move
POOL_LIMIT == 5
\* number of SharedMsg objects of the application
NumHandles == 5
\* last value of millis() in a run
MaxTime == 4
\* largest delayCount a run reaches
MaxDelays == 3
\* largest refCount the application's copies build up
MaxShare == 2
\* allocations in a run where interrupt routines take part
MaxIsrMsgs == 2
\* runs of a task counted from its first one
MaxRuns == 3

(* ------------------------- program constants --------------------------- *)
MAX_TOPICS == 16
DEFAULT_TASK_MESSAGE_BUDGET == 1
DEFAULT_TASK_PERIOD == 100
MIN_TASK_PERIOD == 1
MAX_TASK_PERIOD == 65535
PRIORITY_NORMAL == 2
MSG_NODE_CHUNK == 4
UINT8_MOD == 256
UINT16_MOD == 65536
\* enum ResetCause
RESET_UNKNOWN == 0
RESET_POWER_ON == 1
RESET_EXTERNAL == 2
RESET_BROWN_OUT == 3
RESET_WATCHDOG == 4
RESET_MULTIPLE == 5
\* 2^32 = UINT32_DIV_1000 * 1000 + UINT32_MOD_1000
UINT32_DIV_1000 == 4294967
UINT32_MOD_1000 == 296

Tasks == 1..NumTasks
\* the MsgData objects of the pool array, by index, and the SharedMsg objects
Records == 0..(POOL_LIMIT - 1)
NoRec == POOL_LIMIT
Handles == 1..NumHandles
\* the widths of Timer8, Timer16 and Timer32
TimerBits == {8, 16, 32}
NoTask == 0
States == {"INACTIVE", "ACTIVE", "SUSPENDED", "TERMINATED"}

\* what the application passes in
MsgTypes == {7}
MsgArgs == {42}
PubTopics == {1}
SubTopics == {1}
\* a derived Task class sets its period and its budget in its constructor
Profiles == { [period |-> 1, budget |-> MAX_MESSAGE_POOL_SIZE],
              [period |-> MaxPeriod, budget |-> MAX_MESSAGE_POOL_SIZE + 1] }
Priorities == {PRIORITY_NORMAL, 3}

VARIABLES
    \* Task fields
    taskId, state, priority, remainingTime, periodMs, subscribedTopics,
    maxMessageBudget,
    \* Scheduler fields
    taskList, taskCount, nextTaskId, running,
    taskNodePoolInitialized, taskNodePoolCapacity, freeTaskNodes,
    msgQueue, msgCount, freeNodes, totalNodes,
    \* control
    pc, curTask, curMsg,
    \* history: the tell/publish calls made so far, and the number of
    \* calls that had been made when the running step() was entered
    calls, stepBase,
    \* Scheduler clock and the timing fields of Task
    systemTime, lastExecutedTaskId,
    scheduledTime, actualStartTime, delayCount, maxDelayMs,
    \* MsgDataPool fields, refCount of each MsgData of the pool array, and
    \* msgData of each SharedMsg object
    poolInitialized, poolSize, currentInUse, nextFree, refCount, msgData,
    \* the reset-cause register and the ResetInfo of the application
    resetFlags, resetInfo,
    \* whether the build defines __AVR__ (ATOMIC_BLOCK of util/atomic.h)
    avrBuild,
    \* the SharedMsg operation the foreground is in the middle of
    fgOp,
    \* Mutex fields, and the Mutex call the foreground is in the middle of
    locked, owner_id, mtxOp,
    \* TimerT<T> fields of one timer of each width, and the value of OS.now()
    \* over its whole 32-bit range
    startMs, durationMs, clockMs, expired,
    \* history of the tick in progress: the phases of loopOnce in the order
    \* they ran, and for each task the ticks begun since its last step()
    tickLog, sinceStep,
    \* execution statistics of Task
    runCount, maxExecTimeUs, avgExecTimeUs

vars == << taskId, state, priority, remainingTime, periodMs, subscribedTopics,
           maxMessageBudget, taskList, taskCount, nextTaskId, running,
           taskNodePoolInitialized, taskNodePoolCapacity, freeTaskNodes,
           msgQueue, msgCount, freeNodes, totalNodes,
           pc, curTask, curMsg, calls, stepBase,
           systemTime, lastExecutedTaskId,
           scheduledTime, actualStartTime, delayCount, maxDelayMs,
           poolInitialized, poolSize, currentInUse, nextFree, refCount,
           msgData, resetFlags, resetInfo, avrBuild, fgOp,
           locked, owner_id, mtxOp, startMs, durationMs, clockMs,
           expired, tickLog, sinceStep, runCount, maxExecTimeUs,
           avgExecTimeUs >>

taskVars == << taskId, state, priority, remainingTime, periodMs,
               subscribedTopics, maxMessageBudget >>
cfgVars == << priority, periodMs, maxMessageBudget >>
listVars == << taskList, taskCount, nextTaskId, taskNodePoolInitialized,
               taskNodePoolCapacity, freeTaskNodes >>
queueVars == << msgQueue, msgCount, freeNodes, totalNodes >>
ctlVars == << pc, curTask, curMsg >>
timeVars == << systemTime, lastExecutedTaskId, scheduledTime, actualStartTime,
               delayCount, maxDelayMs >>
poolVars == << poolInitialized, poolSize, currentInUse, nextFree, refCount,
               msgData >>
resetVars == << resetFlags, resetInfo >>
isrVars == << avrBuild, fgOp >>
mutexVars == << locked, owner_id, mtxOp >>
timerVars == << startMs, durationMs, clockMs, expired >>
tickVars == << tickLog, sinceStep >>
statVars == << runCount, maxExecTimeUs, avgExecTimeUs >>
moreVars == << tickVars, statVars >>
restVars == << resetVars, isrVars, mutexVars, timerVars, moreVars >>

NoMsg == [targetTaskId |-> 0, topic |-> 0, type |-> 0, arg |-> 0, call |-> 0]

Max(a, b) == IF a >= b THEN a ELSE b
Min(a, b) == IF a <= b THEN a ELSE b

InList(t) == \E i \in 1..Len(taskList) : taskList[i] = t

(* ------------------------------- Task ---------------------------------- *)
isActive(t) == state[t] = "ACTIVE"

isSubscribedToTopic(t, topic) ==
    IF topic >= MAX_TOPICS THEN FALSE ELSE topic \in subscribedTopics[t]

\* subscribe without the range test
subscribe_NoRangeTest(subs, topic) == subs \cup {topic}

subscribe(subs, topic) ==
    IF topic < MAX_TOPICS THEN subs \cup {topic} ELSE subs

unsubscribe(subs, topic) ==
    IF topic < MAX_TOPICS THEN subs \ {topic} ELSE subs

\* Task classes with an odd object number override getMaxMessageBudget()
\* to return getConfiguredMessageBudget(); the others inherit the default.
OverridesBudget(t) == t % 2 = 1

getMaxMessageBudget(t) ==
    IF OverridesBudget(t) THEN maxMessageBudget[t]
    ELSE DEFAULT_TASK_MESSAGE_BUDGET

setPeriod(period) ==
    IF period < MIN_TASK_PERIOD THEN MIN_TASK_PERIOD
    ELSE IF period > MAX_TASK_PERIOD THEN MAX_TASK_PERIOD ELSE period

\* Task::start without the test of the current state
startState_Always(s) == "ACTIVE"

\* Task::start / stop / suspend / resume / terminate: the new state
startState(s) == IF s = "INACTIVE" THEN "ACTIVE" ELSE s
stopState(s) == IF s = "ACTIVE" \/ s = "SUSPENDED" THEN "INACTIVE" ELSE s
suspendState(s) == IF s = "ACTIVE" THEN "SUSPENDED" ELSE s
resumeState(s) == IF s = "SUSPENDED" THEN "ACTIVE" ELSE s
terminateState(s) == "TERMINATED"

(* ----------------------------- Scheduler ------------------------------- *)
RECURSIVE findTaskFrom(_, _)
findTaskFrom(i, id) ==
    IF i > Len(taskList) THEN NoTask
    ELSE IF taskId[taskList[i]] = id THEN taskList[i]
    ELSE findTaskFrom(i + 1, id)

getTask(id) == findTaskFrom(1, id)

getFreeQueueSlots == (MAX_MESSAGE_POOL_SIZE - msgCount) % UINT8_MOD

\* findNextStep with the id comparison of the tie-break reversed
findNextStep_LargestId(t, nextTask) ==
    IF isActive(t) /\ remainingTime[t] = 0
    THEN IF getFreeQueueSlots < getMaxMessageBudget(t) THEN nextTask
         ELSE IF nextTask = NoTask THEN t
         ELSE IF priority[t] > priority[nextTask] THEN t
         ELSE IF priority[t] = priority[nextTask] /\ taskId[t] > taskId[nextTask]
              THEN t
         ELSE nextTask
    ELSE nextTask

\* findNextStep without the test of the free queue slots
findNextStep_NoGate(t, nextTask) ==
    IF isActive(t) /\ remainingTime[t] = 0
    THEN IF nextTask = NoTask THEN t
         ELSE IF priority[t] > priority[nextTask] THEN t
         ELSE IF priority[t] = priority[nextTask] /\ taskId[t] < taskId[nextTask]
              THEN t
         ELSE nextTask
    ELSE nextTask

\* one iteration of the while loop of findNextTask: the new nextTask
findNextStep(t, nextTask) ==
    IF isActive(t) /\ remainingTime[t] = 0
    THEN IF getFreeQueueSlots < getMaxMessageBudget(t) THEN nextTask
         ELSE IF nextTask = NoTask THEN t
         ELSE IF priority[t] > priority[nextTask] THEN t
         ELSE IF priority[t] = priority[nextTask] /\ taskId[t] < taskId[nextTask]
              THEN t
         ELSE nextTask
    ELSE nextTask

RECURSIVE findNextFrom(_, _)
findNextFrom(i, nextTask) ==
    IF i > Len(taskList) THEN nextTask
    ELSE findNextFrom(i + 1, findNextStep(taskList[i], nextTask))

findNextTask == findNextFrom(1, NoTask)

\* the queue as a value: q nodes in order, cnt = msgCount, fr = length of
\* the free-list, tot = totalNodes, ok = result of the last enqueue,
\* acc = the Task objects the last call enqueued a node for
QState == [q |-> msgQueue, cnt |-> msgCount, fr |-> freeNodes,
           tot |-> totalNodes, ok |-> TRUE, acc |-> {}]

\* allocateMsgNodesChunk that always adds a whole chunk
allocateMsgNodesChunk_WholeChunk(qs) ==
    [qs EXCEPT !.fr = @ + MSG_NODE_CHUNK, !.tot = @ + MSG_NODE_CHUNK]

allocateMsgNodesChunk(qs) ==
    IF qs.tot >= MAX_MESSAGE_POOL_SIZE THEN qs
    ELSE LET canAdd == (MAX_MESSAGE_POOL_SIZE - qs.tot) % UINT8_MOD
             toAdd == IF canAdd >= MSG_NODE_CHUNK THEN MSG_NODE_CHUNK ELSE canAdd
         IN  [qs EXCEPT !.fr = @ + toAdd, !.tot = @ + toAdd]

\* enqueueQueuedMessage linking the node at the head of the queue
enqueueQueuedMessage_AtHead(qs, node) ==
    IF qs.cnt >= MAX_MESSAGE_POOL_SIZE THEN [qs EXCEPT !.ok = FALSE]
    ELSE LET g == IF qs.fr = 0 THEN allocateMsgNodesChunk(qs) ELSE qs
         IN  IF g.fr = 0 THEN [g EXCEPT !.ok = FALSE]
             ELSE [g EXCEPT !.q = << node >> \o @, !.cnt = @ + 1,
                            !.fr = @ - 1, !.ok = TRUE]

enqueueQueuedMessage(qs, node) ==
    IF qs.cnt >= MAX_MESSAGE_POOL_SIZE THEN [qs EXCEPT !.ok = FALSE]
    ELSE LET g == IF qs.fr = 0 THEN allocateMsgNodesChunk(qs) ELSE qs
         IN  IF g.fr = 0 THEN [g EXCEPT !.ok = FALSE]
             ELSE [g EXCEPT !.q = Append(@, node), !.cnt = @ + 1,
                            !.fr = @ - 1, !.ok = TRUE]

MsgNode(target, topic, type, arg, call) ==
    [targetTaskId |-> target, topic |-> topic, type |-> type, arg |-> arg,
     call |-> call]

\* the lambda of publishMessage applied to one task of the list
publishTo(t, qs, topic, type, arg, call) ==
    IF isActive(t) /\ isSubscribedToTopic(t, topic)
    THEN LET r == enqueueQueuedMessage(qs, MsgNode(taskId[t], topic, type, arg, call))
         IN  [r EXCEPT !.acc = IF r.ok THEN @ \cup {t} ELSE @]
    ELSE qs

RECURSIVE publishFrom(_, _, _, _, _, _)
publishFrom(i, qs, topic, type, arg, call) ==
    IF i > Len(taskList) THEN qs
    ELSE publishFrom(i + 1, publishTo(taskList[i], qs, topic, type, arg, call),
                     topic, type, arg, call)

publishMessage(topic, type, arg, call) ==
    publishFrom(1, QState, topic, type, arg, call)

\* sendMessage addressing the node to the first task of the list
sendMessage_ToFirst(task_id, type, arg, call) ==
    LET target_task == getTask(task_id)
    IN  IF target_task = NoTask \/ ~isActive(target_task) THEN QState
        ELSE LET r == enqueueQueuedMessage(QState,
                        MsgNode(taskId[taskList[1]], 0, type, arg, call))
             IN  [r EXCEPT !.acc = IF r.ok THEN {target_task} ELSE {}]

sendMessage(task_id, type, arg, call) ==
    LET target_task == getTask(task_id)
    IN  IF target_task = NoTask \/ ~isActive(target_task) THEN QState
        ELSE LET r == enqueueQueuedMessage(QState, MsgNode(task_id, 0, type, arg, call))
             IN  [r EXCEPT !.acc = IF r.ok THEN {target_task} ELSE {}]

\* processMessages that finds no target and only recycles the node
deliveryTarget_None(node) == NoTask

\* processMessages: the task whose on_msg is invoked for a dequeued node
deliveryTarget(node) ==
    LET target == getTask(node.targetTaskId)
    IN  IF target # NoTask /\ isActive(target) THEN target ELSE NoTask

\* Scheduler::remove: the task list without the first node holding t
RECURSIVE removeFrom(_, _)
removeFrom(list, t) ==
    IF list = << >> THEN << >>
    ELSE IF Head(list) = t THEN Tail(list)
    ELSE << Head(list) >> \o removeFrom(Tail(list), t)

\* Scheduler::add, id assignment: the id after id
nextIdAfter(id) ==
    LET n == (id + 1) % UINT8_MOD IN IF n = 0 THEN 1 ELSE n

(* ------------------------------ history -------------------------------- *)
\* One tell/publish call: its arguments (dst = 0 for publish, topic = 0 for
\* tell), want = the Task objects it addressed (in the list, ACTIVE, and
\* subscribed or the direct target) when it was made, acc = those a node was
\* enqueued for, got = the number of on_msg invocations it has caused per
\* task (counted up to 2).
CallRec(topic, dst, type, arg, want, acc) ==
    [topic |-> topic, dst |-> dst, type |-> type, arg |-> arg, want |-> want,
     acc |-> acc, got |-> [u \in Tasks |-> 0]]

\* the record of a call whose delivery phase is over
DoneCall == CallRec(0, 0, 0, 0, {}, {})

ListSet == {taskList[i] : i \in 1..Len(taskList)}

(* ------------------------------- Init ---------------------------------- *)
\* Scheduler::Scheduler and Task::Task: the clock and the timing fields
InitTime ==
    /\ systemTime = 0
    /\ lastExecutedTaskId = 0
    /\ scheduledTime = [t \in DOMAIN taskId |-> [hi |-> 0, lo |-> 0]]
    /\ actualStartTime = [t \in DOMAIN taskId |-> [hi |-> 0, lo |-> 0]]
    /\ delayCount = [t \in DOMAIN taskId |-> 0]
    /\ maxDelayMs = [t \in DOMAIN taskId |-> 0]

\* MsgDataPool::MsgDataPool: no array yet; every SharedMsg is empty
InitPool ==
    /\ poolInitialized = FALSE
    /\ poolSize = 0
    /\ currentInUse = 0
    /\ nextFree = 0
    /\ refCount = [r \in Records |-> 0]
    /\ msgData = [h \in Handles |-> NoRec]

\* no reset cause latched; a value-initialized ResetInfo
InitReset ==
    /\ resetFlags = 0
    /\ resetInfo = [resetReason |-> 0, resetTime |-> 0, watchdogTimeout |-> 0,
                    lastTaskId |-> 0, optibootResetFlags |-> 0,
                    optibootResetCause |-> 0]

\* no SharedMsg or Mutex call under way
IdleOp == [op |-> "none"]
InitIsr == fgOp = IdleOp

\* Mutex::Mutex
InitMutex == locked = FALSE /\ owner_id = 0 /\ mtxOp = IdleOp

\* TimerT member initializers; the clock at boot
InitTimer ==
    /\ startMs = [w \in TimerBits |-> [hi |-> 0, lo |-> 0]]
    /\ durationMs = [w \in TimerBits |-> [hi |-> 0, lo |-> 0]]
    /\ clockMs = [hi |-> 0, lo |-> 0]
    /\ expired = [w \in TimerBits |-> TRUE]

\* no tick has begun, no task has run
NoTicks == 0 - 1
InitTick ==
    /\ tickLog = << >>
    /\ sinceStep = [t \in Tasks |-> NoTicks]

InitStats ==
    /\ runCount = [t \in Tasks |-> 0]
    /\ maxExecTimeUs = [t \in Tasks |-> 0]
    /\ avgExecTimeUs = [t \in Tasks |-> 0]

InitMore == InitTick /\ InitStats

InitRest ==
    /\ InitReset /\ avrBuild = TRUE /\ InitIsr /\ InitMutex /\ InitTimer
    /\ InitMore

InitBase ==
    /\ taskId = [t \in Tasks |-> 0]
    /\ state = [t \in Tasks |-> "INACTIVE"]
    /\ priority = [t \in Tasks |-> PRIORITY_NORMAL]
    /\ remainingTime = [t \in Tasks |-> 0]
    /\ periodMs = [t \in Tasks |-> DEFAULT_TASK_PERIOD]
    /\ subscribedTopics = [t \in Tasks |-> {}]
    /\ maxMessageBudget = [t \in Tasks |-> 0]
    /\ taskList = << >>
    /\ taskCount = 0
    /\ nextTaskId = 1
    /\ running = FALSE
    /\ taskNodePoolInitialized = FALSE
    /\ taskNodePoolCapacity = 0
    /\ freeTaskNodes = 0
    /\ msgQueue = << >>
    /\ msgCount = 0
    /\ freeNodes = 0
    /\ totalNodes = 0
    /\ pc = "idle"
    /\ curTask = NoTask
    /\ curMsg = NoMsg
    /\ calls = << >>
    /\ stepBase = 0
    /\ InitTime /\ InitPool

Init == InitBase /\ InitRest

(* ------------------- application set-up (before add) ------------------- *)
\* The constructor of a derived Task class: setPeriod, setMaxMessageBudget.
Configure(t, pr) ==
    /\ pc = "idle" /\ ~InList(t) /\ taskId[t] = 0
    /\ periodMs[t] = DEFAULT_TASK_PERIOD
    /\ periodMs' = [periodMs EXCEPT ![t] = setPeriod(pr.period)]
    /\ maxMessageBudget' = [maxMessageBudget EXCEPT ![t] = pr.budget]
    /\ UNCHANGED << taskId, state, priority, remainingTime, subscribedTopics,
                    listVars, running, queueVars, ctlVars, calls, stepBase >>

(* --------------------------- Scheduler::add ----------------------------- *)
\* Task::getCreatedInstanceCount: the Task objects constructed
createdInstanceCount == Cardinality(DOMAIN taskId)

\* allocateTaskNode: << initialized, capacity, free >> after taking a node.
\* initializeTaskNodePool preallocates one node per constructed Task.
allocateTaskNode ==
    LET cap0 == IF taskNodePoolInitialized THEN taskNodePoolCapacity
                ELSE taskNodePoolCapacity + Max(createdInstanceCount, 1)
        fr0 == IF taskNodePoolInitialized THEN freeTaskNodes
               ELSE Max(createdInstanceCount, 1)
        cap1 == IF fr0 = 0 THEN cap0 + 1 ELSE cap0
        fr1 == IF fr0 = 0 THEN 1 ELSE fr0
    IN  << TRUE, cap1, fr1 - 1 >>

\* add(task) without the test of the task limit
Add_NoLimit(t) ==
    /\ pc = "idle" /\ ~InList(t) /\ periodMs[t] <= MaxPeriod
    /\ taskNodePoolInitialized' = allocateTaskNode[1]
    /\ taskNodePoolCapacity' = allocateTaskNode[2]
    /\ freeTaskNodes' = allocateTaskNode[3]
    /\ taskId' = [taskId EXCEPT ![t] = nextTaskId]
    /\ nextTaskId' = nextIdAfter(nextTaskId)
    /\ taskList' = Append(taskList, t)
    /\ taskCount' = taskCount + 1
    /\ UNCHANGED << state, remainingTime, subscribedTopics, cfgVars, running,
                    queueVars, ctlVars, calls, stepBase >>

\* add(task) for a configured task that is not in the list
Add(t) ==
    /\ pc = "idle" /\ ~InList(t) /\ periodMs[t] <= MaxPeriod
    /\ IF taskCount >= MAX_TOPICS
       THEN UNCHANGED << taskId, listVars >>
       ELSE /\ taskNodePoolInitialized' = allocateTaskNode[1]
            /\ taskNodePoolCapacity' = allocateTaskNode[2]
            /\ freeTaskNodes' = allocateTaskNode[3]
            /\ taskId' = [taskId EXCEPT ![t] = nextTaskId]
            /\ nextTaskId' = nextIdAfter(nextTaskId)
            /\ taskList' = Append(taskList, t)
            /\ taskCount' = taskCount + 1
    /\ UNCHANGED << state, remainingTime, subscribedTopics, cfgVars, running,
                    queueVars, ctlVars, calls, stepBase >>

\* remove(task) for a task that is in the list
Remove(t) ==
    /\ pc = "idle" /\ InList(t)
    /\ taskList' = removeFrom(taskList, t)
    /\ freeTaskNodes' = freeTaskNodes + 1
    /\ taskCount' = taskCount - 1
    /\ UNCHANGED << taskVars, nextTaskId, taskNodePoolInitialized,
                    taskNodePoolCapacity, running, queueVars, ctlVars, calls,
                    stepBase >>

(* -------------------------- Scheduler::begin ---------------------------- *)
Begin ==
    /\ pc = "idle" /\ ~running
    /\ running' = TRUE
    /\ state' = [t \in Tasks |-> IF InList(t) THEN startState(state[t]) ELSE state[t]]
    /\ remainingTime' = [t \in Tasks |->
            IF InList(t) /\ state[t] = "INACTIVE" THEN periodMs[t]
            ELSE remainingTime[t]]
    /\ UNCHANGED << taskId, subscribedTopics, cfgVars, listVars, queueVars,
                    ctlVars, calls, stepBase >>

(* ------------- lifecycle calls made by the application ------------------ *)
LifecycleFns == {"start", "stop", "suspend", "resume", "terminate"}

\* the state after Task::f()
lifecycleState(f, s) ==
    CASE f = "start" -> startState(s)
      [] f = "stop" -> stopState(s)
      [] f = "suspend" -> suspendState(s)
      [] f = "resume" -> resumeState(s)
      [] f = "terminate" -> terminateState(s)

\* lifecycleRemaining in which only start() reloads the countdown
lifecycleRemaining_StartOnly(f, t) ==
    IF f = "start" /\ state[t] = "INACTIVE"
    THEN periodMs[t] ELSE remainingTime[t]

\* start() and resume() reload the countdown when they change the state
lifecycleRemaining(f, t) ==
    IF \/ f = "start" /\ state[t] = "INACTIVE"
       \/ f = "resume" /\ state[t] = "SUSPENDED"
    THEN periodMs[t] ELSE remainingTime[t]

Lifecycle(t, f) ==
    /\ pc = "idle" /\ InList(t)
    /\ state' = [state EXCEPT ![t] = lifecycleState(f, @)]
    /\ remainingTime' = [remainingTime EXCEPT ![t] = lifecycleRemaining(f, t)]
    /\ UNCHANGED << taskId, subscribedTopics, cfgVars, listVars, running,
                    queueVars, ctlVars, calls, stepBase >>

(* ------------------------- Scheduler::loopOnce -------------------------- *)
\* LoopOnce that leaves the countdowns alone
LoopOnce_NoDecrement ==
    /\ pc = "idle" /\ running
    /\ pc' = "deliver"
    /\ UNCHANGED << taskVars, listVars, running, queueVars, curTask, curMsg,
                    calls, stepBase >>

\* up to the call of processMessages
LoopOnce ==
    /\ pc = "idle" /\ running
    /\ remainingTime' = [t \in Tasks |->
            IF InList(t) /\ isActive(t) /\ remainingTime[t] > 0
            THEN remainingTime[t] - 1 ELSE remainingTime[t]]
    /\ pc' = "deliver"
    /\ UNCHANGED << taskId, state, subscribedTopics, cfgVars, listVars,
                    running, queueVars, curTask, curMsg, calls, stepBase >>

\* DeliverNext that recycles the node before it calls on_msg
DeliverNext_RecycleFirst ==
    /\ pc = "deliver" /\ msgCount # 0
    /\ LET node == Head(msgQueue)
           target == deliveryTarget(node)
       IN  /\ msgQueue' = Tail(msgQueue)
           /\ msgCount' = msgCount - 1
           /\ freeNodes' = freeNodes + 1
           /\ IF target # NoTask
              THEN /\ pc' = "on_msg" /\ curTask' = target /\ curMsg' = node
                   /\ calls' = [calls EXCEPT ![node.call].got[target] = Min(@ + 1, 2)]
              ELSE UNCHANGED << ctlVars, calls >>
    /\ UNCHANGED << taskVars, listVars, running, totalNodes, stepBase >>

\* processMessages: detach the head; enter on_msg, or recycle the node
DeliverNext ==
    /\ pc = "deliver" /\ msgCount # 0
    /\ LET node == Head(msgQueue)
           target == deliveryTarget(node)
       IN  /\ msgQueue' = Tail(msgQueue)
           /\ msgCount' = msgCount - 1
           /\ IF target # NoTask
              THEN /\ pc' = "on_msg" /\ curTask' = target /\ curMsg' = node
                   /\ calls' = [calls EXCEPT ![node.call].got[target] = Min(@ + 1, 2)]
                   /\ UNCHANGED freeNodes
              ELSE /\ freeNodes' = freeNodes + 1
                   /\ UNCHANGED << ctlVars, calls >>
    /\ UNCHANGED << taskVars, listVars, running, totalNodes, stepBase >>

\* HandlerReturn that does not recycle the node
HandlerReturn_NoRecycle ==
    /\ pc = "on_msg"
    /\ pc' = "deliver" /\ curTask' = NoTask /\ curMsg' = NoMsg
    /\ UNCHANGED << taskVars, listVars, running, msgQueue, msgCount,
                    freeNodes, totalNodes, calls, stepBase >>

\* on_msg returns: the node goes to the free-list
HandlerReturn ==
    /\ pc = "on_msg"
    /\ freeNodes' = freeNodes + 1
    /\ pc' = "deliver" /\ curTask' = NoTask /\ curMsg' = NoMsg
    /\ UNCHANGED << taskVars, listVars, running, msgQueue, msgCount,
                    totalNodes, calls, stepBase >>

\* SelectAndDispatch leaving processMessages while nodes are still queued
SelectAndDispatch_Early ==
    /\ pc = "deliver"
    /\ LET next_task == findNextTask
       IN  IF next_task # NoTask /\ isActive(next_task)
           THEN /\ remainingTime' = [remainingTime EXCEPT ![next_task] = periodMs[next_task]]
                /\ pc' = "step" /\ curTask' = next_task
           ELSE /\ pc' = "idle"
                /\ UNCHANGED << remainingTime, curTask >>
    /\ calls' = [i \in 1..Len(calls) |-> DoneCall]
    /\ stepBase' = Len(calls)
    /\ UNCHANGED << taskId, state, subscribedTopics, cfgVars, listVars,
                    running, queueVars, curMsg >>

\* SelectAndDispatch whose executeTaskStep does not reload the countdown
SelectAndDispatch_NoReload ==
    /\ pc = "deliver" /\ msgCount = 0
    /\ LET next_task == findNextTask
       IN  IF next_task # NoTask /\ isActive(next_task)
           THEN pc' = "step" /\ curTask' = next_task
           ELSE pc' = "idle" /\ UNCHANGED curTask
    /\ calls' = [i \in 1..Len(calls) |-> DoneCall]
    /\ stepBase' = Len(calls)
    /\ UNCHANGED << taskVars, listVars, running, queueVars, curMsg >>

\* the queue is empty: findNextTask, executeTask up to the call of step()
SelectAndDispatch ==
    /\ pc = "deliver" /\ msgCount = 0
    /\ LET next_task == findNextTask
       IN  IF next_task # NoTask /\ isActive(next_task)
           THEN /\ remainingTime' = [remainingTime EXCEPT ![next_task] = periodMs[next_task]]
                /\ pc' = "step" /\ curTask' = next_task
           ELSE /\ pc' = "idle"
                /\ UNCHANGED << remainingTime, curTask >>
    /\ calls' = [i \in 1..Len(calls) |-> DoneCall]
    /\ stepBase' = Len(calls)
    /\ UNCHANGED << taskId, state, subscribedTopics, cfgVars, listVars,
                    running, queueVars, curMsg >>

\* checkForTerminatedTask: << taskList, freeTaskNodes, taskCount >> after it
checkForTerminatedTask(t) ==
    IF state[t] = "TERMINATED" /\ InList(t)
    THEN << removeFrom(taskList, t), freeTaskNodes + 1, taskCount - 1 >>
    ELSE << taskList, freeTaskNodes, taskCount >>

\* step() returns: the rest of executeTask
StepReturn ==
    /\ pc = "step"
    /\ taskList' = checkForTerminatedTask(curTask)[1]
    /\ freeTaskNodes' = checkForTerminatedTask(curTask)[2]
    /\ taskCount' = checkForTerminatedTask(curTask)[3]
    /\ pc' = "idle" /\ curTask' = NoTask
    /\ UNCHANGED << taskVars, nextTaskId, taskNodePoolInitialized,
                    taskNodePoolCapacity, running, queueVars, curMsg, calls,
                    stepBase >>

(* ------------------- user code: step() and on_msg() --------------------- *)
InUser == pc \in {"step", "on_msg"}

WantOfTopic(topic) ==
    {u \in ListSet : isActive(u) /\ isSubscribedToTopic(u, topic)}
WantOfDst(dst) ==
    {u \in ListSet : u = getTask(dst) /\ isActive(u)}

ApplyQueue(r) ==
    /\ msgQueue' = r.q
    /\ msgCount' = r.cnt
    /\ freeNodes' = r.fr
    /\ totalNodes' = r.tot

\* Task::publish
UserPublish(topic, type, arg) ==
    /\ InUser /\ Len(calls) < MaxCalls
    /\ LET r == publishMessage(topic, type, arg, Len(calls) + 1)
       IN  /\ ApplyQueue(r)
           /\ calls' = Append(calls, CallRec(topic, 0, type, arg, WantOfTopic(topic), r.acc))
    /\ UNCHANGED << taskVars, listVars, running, ctlVars, stepBase >>

\* Task::tell
UserTell(dst, type, arg) ==
    /\ InUser /\ Len(calls) < MaxCalls
    /\ LET r == sendMessage(dst, type, arg, Len(calls) + 1)
       IN  /\ ApplyQueue(r)
           /\ calls' = Append(calls, CallRec(0, dst, type, arg, WantOfDst(dst), r.acc))
    /\ UNCHANGED << taskVars, listVars, running, ctlVars, stepBase >>

UserSubscribe(topic) ==
    /\ InUser /\ topic \notin subscribedTopics[curTask]
    /\ subscribedTopics' = [subscribedTopics EXCEPT ![curTask] = subscribe(@, topic)]
    /\ UNCHANGED << taskId, state, remainingTime, cfgVars, listVars, running,
                    queueVars, ctlVars, calls, stepBase >>

UserUnsubscribe(topic) ==
    /\ InUser /\ topic \in subscribedTopics[curTask]
    /\ subscribedTopics' = [subscribedTopics EXCEPT ![curTask] = unsubscribe(@, topic)]
    /\ UNCHANGED << taskId, state, remainingTime, cfgVars, listVars, running,
                    queueVars, ctlVars, calls, stepBase >>

\* the running task calls terminate() or suspend() on itself
UserLifecycle(f) ==
    /\ InUser /\ state[curTask] = "ACTIVE"
    /\ state' = [state EXCEPT ![curTask] = lifecycleState(f, @)]
    /\ UNCHANGED << taskId, remainingTime, subscribedTopics, cfgVars, listVars,
                    running, queueVars, ctlVars, calls, stepBase >>

DstIds == {taskId[u] : u \in ListSet}

Next ==
    \/ \E t \in Tasks, pr \in Profiles : Configure(t, pr) /\ UNCHANGED << timeVars, poolVars, restVars >>
    \/ \E t \in Tasks : nextTaskId <= MaxAdmissions /\ Add(t) /\ UNCHANGED << timeVars, poolVars, restVars >>
    \/ \E t \in Tasks : Remove(t) /\ UNCHANGED << timeVars, poolVars, restVars >>
    \/ Begin /\ UNCHANGED << timeVars, poolVars, restVars >>
    \/ \E t \in Tasks, f \in LifecycleFns : Lifecycle(t, f) /\ UNCHANGED << timeVars, poolVars, restVars >>
    \/ LoopOnce /\ UNCHANGED << timeVars, poolVars, restVars >>
    \/ DeliverNext /\ UNCHANGED << timeVars, poolVars, restVars >>
    \/ HandlerReturn /\ UNCHANGED << timeVars, poolVars, restVars >>
    \/ SelectAndDispatch /\ UNCHANGED << timeVars, poolVars, restVars >>
    \/ StepReturn /\ UNCHANGED << timeVars, poolVars, restVars >>
    \/ \E topic \in PubTopics, type \in MsgTypes, arg \in MsgArgs : UserPublish(topic, type, arg) /\ UNCHANGED << timeVars, poolVars, restVars >>
    \/ \E dst \in DstIds, type \in MsgTypes, arg \in MsgArgs : UserTell(dst, type, arg) /\ UNCHANGED << timeVars, poolVars, restVars >>
    \/ \E topic \in SubTopics : UserSubscribe(topic) /\ UNCHANGED << timeVars, poolVars, restVars >>
    \/ \E topic \in SubTopics : UserUnsubscribe(topic) /\ UNCHANGED << timeVars, poolVars, restVars >>
    \/ \E f \in {"terminate", "suspend"} : UserLifecycle(f) /\ UNCHANGED << timeVars, poolVars, restVars >>

Spec == Init /\ [][Next]_vars

TypeOK ==
    /\ msgCount = Len(msgQueue)
    /\ taskCount = Len(taskList)

(* --------------------- selection on arbitrary lists --------------------- *)
\* The task list in any admission order, with the ids a wrapped counter can
\* leave, every state, countdown and priority, and the queue empty as it is
\* when loopOnce calls findNextTask.
SelIds == {1, 2, 255}
SelPriorities == {PRIORITY_NORMAL, 3}
SelBudgets == {0, MAX_MESSAGE_POOL_SIZE + 1}

TaskLists ==
    {l \in UNION {[1..n -> Tasks] : n \in 0..NumTasks} :
        \A i, j \in DOMAIN l : i # j => l[i] # l[j]}

InitSelect ==
    /\ taskList \in TaskLists
    /\ taskCount = Len(taskList)
    /\ taskId \in [Tasks -> SelIds \cup {0}]
    /\ state \in [Tasks -> States]
    /\ priority \in [Tasks -> SelPriorities]
    /\ remainingTime \in [Tasks -> 0..1]
    /\ maxMessageBudget \in [Tasks -> SelBudgets]
    /\ \A t \in Tasks :
          IF InList(t) THEN taskId[t] # 0
          ELSE /\ taskId[t] = 0 /\ state[t] = "INACTIVE"
               /\ priority[t] = PRIORITY_NORMAL /\ remainingTime[t] = 0
               /\ maxMessageBudget[t] = 0
    /\ \A t \in Tasks : ~OverridesBudget(t) => maxMessageBudget[t] = 0
    /\ periodMs = [t \in Tasks |-> MIN_TASK_PERIOD]
    /\ subscribedTopics = [t \in Tasks |-> {}]
    /\ nextTaskId = 1
    /\ running = TRUE
    /\ taskNodePoolInitialized = TRUE
    /\ taskNodePoolCapacity = NumTasks
    /\ freeTaskNodes = NumTasks - Len(taskList)
    /\ msgQueue = << >>
    /\ msgCount = 0
    /\ freeNodes = 0
    /\ totalNodes = 0
    /\ pc = "deliver"
    /\ curTask = NoTask
    /\ curMsg = NoMsg
    /\ calls = << >>
    /\ stepBase = 0
    /\ InitTime /\ InitPool /\ InitRest

NextSelect ==
    \/ SelectAndDispatch /\ UNCHANGED << timeVars, poolVars, restVars >>
    \/ StepReturn /\ UNCHANGED << timeVars, poolVars, restVars >>

SpecSelect == InitSelect /\ [][NextSelect]_vars

\* the tasks findNextTask may return: in the list, ACTIVE, countdown at
\* zero, and enough free queue slots for the budget they report
ReadySet ==
    {t \in ListSet : /\ isActive(t) /\ remainingTime[t] = 0
                     /\ getFreeQueueSlots >= Max(getMaxMessageBudget(t), 1)}

BestReady ==
    {r \in ReadySet : \A u \in ReadySet :
        \/ priority[u] < priority[r]
        \/ priority[u] = priority[r] /\ taskId[r] <= taskId[u]}

\* C1: the selection step of loopOnce dispatches a ready task of the highest
\* priority and, among those, of the smallest id; it dispatches no task
\* exactly when no task is ready.
C1_SelectionCorrect ==
    [][pc = "deliver" /\ pc' # "deliver" =>
          IF ReadySet = {} THEN pc' = "idle"
          ELSE pc' = "step" /\ curTask' \in BestReady]_vars

\* C1 witness: two ready tasks of equal priority, and the one dispatched is
\* the later one in the list because its id is smaller.
C1_Witness ==
    /\ pc = "step" /\ Len(taskList) = 2 /\ curTask = taskList[2]
    /\ priority[taskList[1]] = priority[curTask]
    /\ taskId[curTask] < taskId[taskList[1]]
    /\ isActive(taskList[1]) /\ remainingTime[taskList[1]] = 0
    /\ getFreeQueueSlots >= getMaxMessageBudget(taskList[1])

(* ------------------------- delivery of messages ------------------------- *)
IsPublish(s) == calls[s].dst = 0 /\ calls[s].topic # 0
IsTell(s) == calls[s].dst # 0
NodesOf(s) == {i \in 1..Len(msgQueue) : msgQueue[i].call = s}
PhaseEnd == pc = "deliver" /\ msgCount = 0
Untouched(s) == \A u \in Tasks : calls[s].got[u] = 0

\* the message a handler runs with is the one the call sent
PayloadKept ==
    pc = "on_msg" =>
        LET c == calls[curMsg.call]
        IN  /\ curMsg.type = c.type /\ curMsg.arg = c.arg
            /\ curMsg.topic = c.topic

\* C2: when the first node of a publish(topic, ...) call is about to be
\* delivered, a node of that call is queued for every task of the list that
\* is subscribed to the topic and ACTIVE, and every queued node of the call
\* that will reach a handler belongs to a subscriber; no task handles the
\* message twice, and handlers see the published payload.
C2_FanOutAtDelivery ==
    /\ PayloadKept
    /\ \A s \in 1..Len(calls) : IsPublish(s) =>
          /\ \A u \in Tasks : calls[s].got[u] <= 1
          /\ (pc = "deliver" /\ NodesOf(s) # {} /\ Untouched(s)
                /\ Head(msgQueue).call = s) =>
                /\ \A u \in ListSet :
                      (isActive(u) /\ isSubscribedToTopic(u, calls[s].topic)) =>
                          \E i \in NodesOf(s) : getTask(msgQueue[i].targetTaskId) = u
                /\ \A i \in NodesOf(s) :
                      deliveryTarget(msgQueue[i]) # NoTask =>
                          isSubscribedToTopic(deliveryTarget(msgQueue[i]), calls[s].topic)

\* C3 as stated: at the end of the delivery phase every tell(dst, ...) made
\* while a task with id dst was in the list and ACTIVE has reached that
\* task's handler exactly once if the task is still in the list and ACTIVE,
\* and has reached no other task.
C3_EveryTellDelivered ==
    /\ PayloadKept
    /\ \A s \in 1..Len(calls) : IsTell(s) => \A u \in Tasks :
          /\ calls[s].got[u] <= 1
          /\ calls[s].got[u] = 1 => taskId[u] = calls[s].dst
          /\ (PhaseEnd /\ u \in calls[s].want /\ InList(u) /\ isActive(u)
                /\ taskId[u] = calls[s].dst) => calls[s].got[u] = 1

\* C3 amended: the same for every tell the queue accepted (a tell made when
\* the queue is full or no node is free is dropped and reaches no handler).
C3_AcceptedTellDelivered ==
    /\ PayloadKept
    /\ \A s \in 1..Len(calls) : IsTell(s) => \A u \in Tasks :
          /\ calls[s].got[u] <= 1
          /\ calls[s].got[u] = 1 => taskId[u] = calls[s].dst /\ u \in calls[s].acc
          /\ (PhaseEnd /\ u \in calls[s].acc /\ InList(u) /\ isActive(u)
                /\ taskId[u] = calls[s].dst) => calls[s].got[u] = 1

\* C3 witness: a delivery phase ends with an accepted tell handled once by
\* its target and not by the other task of the list, which is ACTIVE too.
C3_Witness ==
    /\ PhaseEnd
    /\ \E s \in 1..Len(calls), u, v \in ListSet :
          /\ IsTell(s) /\ u # v /\ isActive(u) /\ isActive(v)
          /\ calls[s].acc = {u} /\ calls[s].got[u] = 1 /\ calls[s].got[v] = 0

\* C4: messages are handled in the order they were enqueued: the queue holds
\* the nodes in call order, and when a task's handler runs for a message no
\* later message has been handled by that task.
C4_Fifo ==
    /\ \A i, j \in 1..Len(msgQueue) : i < j => msgQueue[i].call <= msgQueue[j].call
    /\ pc = "on_msg" =>
          /\ \A i \in 1..Len(msgQueue) : curMsg.call <= msgQueue[i].call
          /\ \A s \in 1..Len(calls) : s > curMsg.call => calls[s].got[curTask] = 0

\* C4 witness: a task handles the second of two messages sent to it, having
\* handled the first.
C4_Witness ==
    /\ pc = "on_msg" /\ curMsg.call = 2
    /\ calls[1].got[curTask] = 1 /\ calls[2].got[curTask] = 1

(* ------------------------------ lifecycle ------------------------------- *)
\* step() or on_msg() of t is entered by this step
Invoked(t) == pc' \in {"step", "on_msg"} /\ pc' # pc /\ curTask' = t

\* C5: a TERMINATED task stays TERMINATED whatever is called on it, and no
\* step of the scheduler enters its step() or its on_msg().
C5_TerminatedNeverRuns ==
    [][\A t \in Tasks : state[t] = "TERMINATED" =>
            state'[t] = "TERMINATED" /\ ~Invoked(t)]_vars

\* C5 witness: processMessages is about to dequeue a message addressed to a
\* task of the list that is TERMINATED and whose countdown is at zero.
C5_Witness ==
    /\ pc = "deliver" /\ msgCount # 0
    /\ \E t \in ListSet :
          /\ state[t] = "TERMINATED" /\ remainingTime[t] = 0
          /\ Head(msgQueue).targetTaskId = taskId[t]

\* C6: when a tick ends (loopOnce returns) no task of the list is
\* TERMINATED.
C6_ReclaimedByEndOfTick ==
    [][pc # "idle" /\ pc' = "idle" =>
          \A i \in 1..Len(taskList') : state'[taskList'[i]] # "TERMINATED"]_vars

\* C7: a publish on a topic made while a task of the list is SUSPENDED and
\* subscribed to the topic leaves a node for that task in the queue.
C7_RetainedWhileSuspended ==
    [][\A topic \in PubTopics :
          (Len(calls') = Len(calls) + 1 /\ calls'[Len(calls')].topic = topic) =>
              \A u \in ListSet :
                  (state[u] = "SUSPENDED" /\ isSubscribedToTopic(u, topic)) =>
                      \E i \in 1..Len(msgQueue') :
                          /\ msgQueue'[i].call = Len(calls')
                          /\ msgQueue'[i].targetTaskId = taskId[u]]_vars

(* ----------------------------- budget gate ------------------------------ *)
\* the budget a task declares: the value given to setMaxMessageBudget, which
\* an overriding class also returns from getMaxMessageBudget
DeclaredBudget(t) ==
    IF OverridesBudget(t) THEN getMaxMessageBudget(t) ELSE maxMessageBudget[t]

\* C9: when step() of a task has just been entered, the free queue slots
\* are at least max(b, 1) for the budget b the task declares.
C9_DispatchedWithinBudget ==
    (pc = "step" /\ Len(calls) = stepBase) =>
        getFreeQueueSlots >= Max(DeclaredBudget(curTask), 1)

\* C10: while the running step() has made no more tell/publish calls than
\* the budget its task was dispatched with, every call has enqueued a node
\* for each task it addressed.
C10_NoDropWithinBudget ==
    (pc = "step" /\ Len(calls) - stepBase <= getMaxMessageBudget(curTask)) =>
        \A s \in (stepBase + 1)..Len(calls) : calls[s].acc = calls[s].want

(* ------------------------ admission over the wrap ----------------------- *)
\* Tasks whose constructors set the shortest period, admitted and removed
\* without limit while no tick runs: nextTaskId runs over all its 8 bits.
InitAdmit ==
    /\ taskId = [t \in Tasks |-> 0]
    /\ state = [t \in Tasks |-> "INACTIVE"]
    /\ priority = [t \in Tasks |-> PRIORITY_NORMAL]
    /\ remainingTime = [t \in Tasks |-> 0]
    /\ periodMs = [t \in Tasks |-> setPeriod(MIN_TASK_PERIOD)]
    /\ subscribedTopics = [t \in Tasks |-> {}]
    /\ maxMessageBudget = [t \in Tasks |-> 0]
    /\ taskList = << >>
    /\ taskCount = 0
    /\ nextTaskId = 1
    /\ running = FALSE
    /\ taskNodePoolInitialized = FALSE
    /\ taskNodePoolCapacity = 0
    /\ freeTaskNodes = 0
    /\ msgQueue = << >>
    /\ msgCount = 0
    /\ freeNodes = 0
    /\ totalNodes = 0
    /\ pc = "idle"
    /\ curTask = NoTask
    /\ curMsg = NoMsg
    /\ calls = << >>
    /\ stepBase = 0
    /\ InitTime /\ InitPool /\ InitRest

NextAdmit ==
    \/ \E t \in Tasks : Add(t) /\ UNCHANGED << timeVars, poolVars, restVars >>
    \/ \E t \in Tasks : Remove(t) /\ UNCHANGED << timeVars, poolVars, restVars >>

SpecAdmit == InitAdmit /\ [][NextAdmit]_vars

\* C8: the tasks of the list have pairwise different ids, none of them 0.
C8_UniqueNonZeroIds ==
    \A i, j \in 1..Len(taskList) :
        /\ taskId[taskList[i]] # 0
        /\ i # j => taskId[taskList[i]] # taskId[taskList[j]]

LifecycleEdges ==
    { << "INACTIVE", "ACTIVE" >>, << "ACTIVE", "SUSPENDED" >>,
      << "SUSPENDED", "ACTIVE" >>, << "ACTIVE", "INACTIVE" >>,
      << "SUSPENDED", "INACTIVE" >>, << "ACTIVE", "TERMINATED" >> }

C13_OnlyLifecycleEdges ==
    [][\A t \in Tasks : state'[t] # state[t] =>
            << state[t], state'[t] >> \in LifecycleEdges]_vars

(* -------------------------- the limit of add ---------------------------- *)
\* One Task object more than the list may hold, each constructed with the
\* shortest period; the task of the smallest number that is not in the list
\* is admitted next, and a task is removed when the list is full.
MaxCapAdmissions == 18
CapTasks == 1..(MAX_TOPICS + 1)

InitCap ==
    /\ taskId = [t \in CapTasks |-> 0]
    /\ state = [t \in CapTasks |-> "INACTIVE"]
    /\ priority = [t \in CapTasks |-> PRIORITY_NORMAL]
    /\ remainingTime = [t \in CapTasks |-> 0]
    /\ periodMs = [t \in CapTasks |-> setPeriod(MIN_TASK_PERIOD)]
    /\ subscribedTopics = [t \in CapTasks |-> {}]
    /\ maxMessageBudget = [t \in CapTasks |-> 0]
    /\ taskList = << >>
    /\ taskCount = 0
    /\ nextTaskId = 1
    /\ running = FALSE
    /\ taskNodePoolInitialized = FALSE
    /\ taskNodePoolCapacity = 0
    /\ freeTaskNodes = 0
    /\ msgQueue = << >>
    /\ msgCount = 0
    /\ freeNodes = 0
    /\ totalNodes = 0
    /\ pc = "idle"
    /\ curTask = NoTask
    /\ curMsg = NoMsg
    /\ calls = << >>
    /\ stepBase = 0
    /\ InitTime /\ InitPool /\ InitRest

NextCap ==
    \/ \E t \in CapTasks :
          /\ nextTaskId <= MaxCapAdmissions
          /\ \A u \in CapTasks : u < t => InList(u)
          /\ Add(t)
          /\ UNCHANGED << timeVars, poolVars, restVars >>
    \/ \E t \in CapTasks : taskCount = MAX_TOPICS /\ Remove(t) /\ UNCHANGED << timeVars, poolVars, restVars >>

SpecCap == InitCap /\ [][NextCap]_vars

toUint32(n) == [hi |-> (n \div UINT16_MOD) % UINT16_MOD, lo |-> n % UINT16_MOD]

\* a - b in uint32_t arithmetic
sub32(a, b) ==
    [hi |-> (a.hi - b.hi - (IF a.lo < b.lo THEN 1 ELSE 0)) % UINT16_MOD,
     lo |-> (a.lo - b.lo) % UINT16_MOD]

\* a > b on uint32_t
gt32(a, b) == a.hi > b.hi \/ (a.hi = b.hi /\ a.lo > b.lo)

\* handleTaskTiming(task, currentTime): the timing fields of the task
handleTaskTiming(t, currentTime) ==
    LET actual == toUint32(currentTime)
        sched == sub32(actual, toUint32(periodMs[t]))
        delay == sub32(actual, sched)
        delayMs == IF delay.hi > 0 THEN UINT16_MOD - 1 ELSE delay.lo
    IN  IF gt32(actual, sched)
        THEN [scheduledTime |-> sched, actualStartTime |-> actual,
              delayCount |-> (delayCount[t] + 1) % UINT16_MOD,
              maxDelayMs |-> Max(delayMs, maxDelayMs[t])]
        ELSE [scheduledTime |-> sched, actualStartTime |-> actual,
              delayCount |-> delayCount[t], maxDelayMs |-> maxDelayMs[t]]

\* RESET_CAUSE_*: 1 << PORF, EXTRF, BORF, WDRF (bits 0, 1, 2, 3 of MCUSR)
\* with __AVR__, the fallback values without
RESET_CAUSE_POWER_ON == IF avrBuild THEN 1 ELSE 4
RESET_CAUSE_EXTERNAL == IF avrBuild THEN 2 ELSE 1
RESET_CAUSE_BROWN_OUT == IF avrBuild THEN 4 ELSE 2
RESET_CAUSE_WATCHDOG == 8

\* flags & mask, for a mask of one bit
HasFlag(flags, mask) == (flags \div mask) % 2 = 1

\* getResetCauseFlags: GPIOR0 with __AVR__, 0 without
getResetCauseFlags == IF avrBuild THEN resetFlags ELSE 0

\* getResetCause that returns the first flag found
getResetCause_FirstFlag ==
    LET flags == getResetCauseFlags
    IN  IF flags = 0 THEN RESET_UNKNOWN
        ELSE IF HasFlag(flags, RESET_CAUSE_POWER_ON) THEN RESET_POWER_ON
        ELSE IF HasFlag(flags, RESET_CAUSE_EXTERNAL) THEN RESET_EXTERNAL
        ELSE IF HasFlag(flags, RESET_CAUSE_BROWN_OUT) THEN RESET_BROWN_OUT
        ELSE IF HasFlag(flags, RESET_CAUSE_WATCHDOG) THEN RESET_WATCHDOG
        ELSE RESET_UNKNOWN

getResetCause ==
    LET flags == getResetCauseFlags
        c1 == IF HasFlag(flags, RESET_CAUSE_POWER_ON) THEN 1 ELSE 0
        c2 == c1 + (IF HasFlag(flags, RESET_CAUSE_EXTERNAL) THEN 1 ELSE 0)
        c3 == c2 + (IF HasFlag(flags, RESET_CAUSE_BROWN_OUT) THEN 1 ELSE 0)
        count == c3 + (IF HasFlag(flags, RESET_CAUSE_WATCHDOG) THEN 1 ELSE 0)
    IN  IF flags = 0 THEN RESET_UNKNOWN
        ELSE IF count > 1 THEN RESET_MULTIPLE
        ELSE IF HasFlag(flags, RESET_CAUSE_POWER_ON) THEN RESET_POWER_ON
        ELSE IF HasFlag(flags, RESET_CAUSE_EXTERNAL) THEN RESET_EXTERNAL
        ELSE IF HasFlag(flags, RESET_CAUSE_BROWN_OUT) THEN RESET_BROWN_OUT
        ELSE IF HasFlag(flags, RESET_CAUSE_WATCHDOG) THEN RESET_WATCHDOG
        ELSE RESET_UNKNOWN

\* getResetInfo: the ResetInfo it fills in
getResetInfo ==
    [resetReason |-> 0, resetTime |-> systemTime, watchdogTimeout |-> 0,
     lastTaskId |-> 0, optibootResetFlags |-> getResetCauseFlags,
     optibootResetCause |-> getResetCause]

\* millis(): the clock has not moved or has moved by one
Clock == {now \in {systemTime, systemTime + 1} : now <= MaxTime}

\* begin() with systemTime = millis()
TimedBegin(now) ==
    /\ Begin
    /\ systemTime' = now
    /\ UNCHANGED << lastExecutedTaskId, scheduledTime, actualStartTime,
                    delayCount, maxDelayMs, poolVars, restVars >>

\* loopOnce with updateSystemTime(), up to the call of processMessages
TimedLoopOnce(now) ==
    /\ \A t \in DOMAIN taskId : delayCount[t] < MaxDelays
    /\ LoopOnce
    /\ systemTime' = now
    /\ UNCHANGED << lastExecutedTaskId, scheduledTime, actualStartTime,
                    delayCount, maxDelayMs, poolVars, restVars >>

\* findNextTask and executeTask up to the call of step(), with
\* handleTaskTiming
TimedDispatch ==
    /\ SelectAndDispatch
    /\ LET t == findNextTask
       IN  IF t # NoTask /\ isActive(t)
           THEN LET r == handleTaskTiming(t, systemTime)
                IN  /\ scheduledTime' = [scheduledTime EXCEPT ![t] = r.scheduledTime]
                    /\ actualStartTime' = [actualStartTime EXCEPT ![t] = r.actualStartTime]
                    /\ delayCount' = [delayCount EXCEPT ![t] = r.delayCount]
                    /\ maxDelayMs' = [maxDelayMs EXCEPT ![t] = r.maxDelayMs]
           ELSE UNCHANGED << scheduledTime, actualStartTime, delayCount,
                             maxDelayMs >>
    /\ UNCHANGED << systemTime, lastExecutedTaskId, poolVars, restVars >>

\* step() returns: updateTimingVariables and the rest of executeTask
TimedStepReturn ==
    /\ StepReturn
    /\ lastExecutedTaskId' = taskId[curTask]
    /\ UNCHANGED << systemTime, scheduledTime, actualStartTime, delayCount,
                    maxDelayMs, poolVars, restVars >>

NextTiming ==
    \/ \E t \in Tasks, pr \in Profiles : Configure(t, pr) /\ UNCHANGED << timeVars, poolVars, restVars >>
    \/ \E t \in Tasks : nextTaskId <= MaxAdmissions /\ Add(t) /\ UNCHANGED << timeVars, poolVars, restVars >>
    \/ \E now \in Clock : TimedBegin(now)
    \/ \E now \in Clock : TimedLoopOnce(now)
    \/ TimedDispatch
    \/ TimedStepReturn

SpecTiming == Init /\ [][NextTiming]_vars

\* C15: as long as a single task has been admitted (so that at most one
\* task is ready in any tick) every dispatch has actualStartTime equal to
\* scheduledTime and no task has a delay recorded.
C15_NoDelayWhenAlone ==
    nextTaskId <= 2 =>
        \A t \in Tasks : /\ actualStartTime[t] = scheduledTime[t]
                         /\ delayCount[t] = 0 /\ maxDelayMs[t] = 0

\* C16: while step() of a task runs, the last-task id recorded for a reset
\* (the lastTaskId getResetInfo reports, or else lastExecutedTaskId) is the
\* id of that task.
C16_LastTaskRecordedBeforeStep ==
    pc = "step" =>
        \/ getResetInfo.lastTaskId = taskId[curTask]
        \/ lastExecutedTaskId = taskId[curTask]

(* --------------------------- the message pool --------------------------- *)
\* MsgDataPool::allocate has no caller inside the library; this
\* specification drives the pool through its member functions and through
\* SharedMsg, as a holder of the pool does.  new MsgData[poolLimit] is taken
\* to succeed.

\* MsgDataPool::initialize: poolSize once the array exists
sizeNow == IF poolInitialized THEN poolSize ELSE POOL_LIMIT

\* updateAdaptiveLimit that never grows poolSize
updateAdaptiveLimit_NoGrow(inUse, size) ==
    IF inUse < size \div 4 /\ size > 4 THEN size - 1 ELSE size

\* updateAdaptiveLimit whose shrinking does not stop at 4
updateAdaptiveLimit_NoFloor(inUse, size) ==
    IF inUse > (size * 3) \div 4 /\ size < POOL_LIMIT
    THEN (size + 1) % UINT8_MOD
    ELSE IF inUse < size \div 4 /\ size > 3
         THEN size - 1
         ELSE size

\* updateAdaptiveLimit that grows poolSize past poolLimit
updateAdaptiveLimit_NoCap(inUse, size) ==
    IF inUse > (size * 3) \div 4
    THEN (size + 1) % UINT8_MOD
    ELSE IF inUse < size \div 4 /\ size > 4
         THEN size - 1
         ELSE size

\* MsgDataPool::updateAdaptiveLimit: the new poolSize
updateAdaptiveLimit(inUse, size) ==
    IF inUse > (size * 3) \div 4 /\ size < POOL_LIMIT
    THEN (size + 1) % UINT8_MOD
    ELSE IF inUse < size \div 4 /\ size > 4
         THEN size - 1
         ELSE size

\* MsgDataPool::allocate: the record it returns, NoRec for nullptr
allocate == IF currentInUse >= sizeNow THEN NoRec ELSE nextFree

\* MsgDataPool::deallocate(msg), given the reference counts so far
deallocate(r, counts) ==
    LET inUse == (currentInUse - 1) % UINT8_MOD
    IN  /\ refCount' = [counts EXCEPT ![r] = 0]
        /\ currentInUse' = inUse
        /\ poolSize' = updateAdaptiveLimit(inUse, poolSize)

\* the handle a newly constructed SharedMsg object gets
NewHandle(h) ==
    /\ msgData[h] = NoRec
    /\ \A g \in Handles : g < h => msgData[g] # NoRec

\* SharedMsg h(pool.allocate())
NewMsg(h) ==
    /\ NewHandle(h)
    /\ poolInitialized' = TRUE
    /\ LET msg == allocate
       IN  IF msg = NoRec
           THEN /\ poolSize' = sizeNow
                /\ UNCHANGED << currentInUse, nextFree, refCount, msgData >>
           ELSE LET inUse == (currentInUse + 1) % UINT8_MOD
                IN  /\ currentInUse' = inUse
                    /\ nextFree' = (nextFree + 1) % sizeNow
                    /\ poolSize' = updateAdaptiveLimit(inUse, sizeNow)
                    /\ refCount' = [refCount EXCEPT ![msg] = 1]
                    /\ msgData' = [msgData EXCEPT ![h] = msg]

\* SharedMsg h(g)
Copy(h, g) ==
    /\ NewHandle(h)
    /\ msgData[g] # NoRec
    /\ refCount[msgData[g]] < MaxShare
    /\ msgData' = [msgData EXCEPT ![h] = msgData[g]]
    /\ refCount' = [refCount EXCEPT ![msgData[g]] = (@ + 1) % UINT8_MOD]
    /\ UNCHANGED << poolInitialized, poolSize, currentInUse, nextFree >>

\* h = g, both holding a record (with h empty it acts as Copy, with g
\* empty as Drop); h is the most recently constructed object
Assign(h, g) ==
    /\ h # g
    /\ msgData[h] # NoRec /\ msgData[g] # NoRec
    /\ \A k \in Handles : k > h => msgData[k] = NoRec
    /\ refCount[msgData[g]] < MaxShare
    /\ LET oldData == msgData[h]
           newData == msgData[g]
           inc == IF newData # NoRec
                  THEN [refCount EXCEPT ![newData] = (@ + 1) % UINT8_MOD]
                  ELSE refCount
           dec == IF oldData # NoRec
                  THEN [inc EXCEPT ![oldData] = (@ - 1) % UINT8_MOD]
                  ELSE inc
       IN  /\ msgData' = [msgData EXCEPT ![h] = newData]
           /\ IF oldData # NoRec /\ dec[oldData] = 0
              THEN deallocate(oldData, dec)
              ELSE /\ refCount' = dec
                   /\ UNCHANGED << poolSize, currentInUse >>
    /\ UNCHANGED << poolInitialized, nextFree >>

\* ~SharedMsg / release; objects are destroyed in reverse order of
\* construction
Drop(h) ==
    /\ msgData[h] # NoRec
    /\ \A g \in Handles : g > h => msgData[g] = NoRec
    /\ LET r == msgData[h]
           dec == [refCount EXCEPT ![r] = (@ - 1) % UINT8_MOD]
       IN  IF dec[r] = 0
           THEN deallocate(r, dec)
           ELSE /\ refCount' = dec
                /\ UNCHANGED << poolSize, currentInUse >>
    /\ msgData' = [msgData EXCEPT ![h] = NoRec]
    /\ UNCHANGED << poolInitialized, nextFree >>

schedVarsOnly ==
    << taskVars, listVars, queueVars, ctlVars, running, calls, stepBase >>
schedVars == << schedVarsOnly, restVars >>

\* the counters have not wrapped around
PoolInBounds ==
    /\ currentInUse <= POOL_LIMIT
    /\ \A r \in Records : refCount[r] <= MaxShare

NextPool ==
    \/ \E h \in Handles : PoolInBounds /\ NewMsg(h) /\ UNCHANGED << schedVars, timeVars >>
    \/ \E h, g \in Handles : PoolInBounds /\ Copy(h, g) /\ UNCHANGED << schedVars, timeVars >>
    \/ \E h, g \in Handles : PoolInBounds /\ Assign(h, g) /\ UNCHANGED << schedVars, timeVars >>
    \/ \E h \in Handles : PoolInBounds /\ Drop(h) /\ UNCHANGED << schedVars, timeVars >>

SpecPool == Init /\ [][NextPool]_vars

\* live SharedMsg objects: those holding a record
LiveHandles == {h \in Handles : msgData[h] # NoRec}

\* C17: whenever fewer than poolLimit records are counted in use,
\* allocate() returns a record, whatever poolSize has become; with poolLimit
\* records in use it returns none.
C17_AllocateBelowLimit ==
    /\ currentInUse < POOL_LIMIT => allocate # NoRec
    /\ currentInUse = POOL_LIMIT => allocate = NoRec

\* C18: a record returned by allocate() was free just before the call: its
\* refCount was 0 and no live SharedMsg pointed to it.
C18_AllocateReturnsFresh ==
    [][\A h \in Handles :
          NewMsg(h) /\ allocate # NoRec =>
              /\ refCount[allocate] = 0
              /\ \A g \in Handles : msgData[g] # allocate]_vars

\* C19: currentInUse equals the number of live SharedMsg objects.
C19_InUseEqualsLiveHandles == currentInUse = Cardinality(LiveHandles)

\* C20: every SharedMsg is empty or points to a record whose refCount is at
\* least 1, that is, never to a record the pool holds as free.
C20_HandleNeverOnFreeRecord ==
    \A h \in Handles : msgData[h] # NoRec => refCount[msgData[h]] >= 1

\* C17 is exercised where the adaptive poolSize is below the limit and the
\* next allocate() takes the last record inside it.
C17_Witness ==
    /\ poolInitialized
    /\ poolSize < POOL_LIMIT
    /\ currentInUse = poolSize - 1
    /\ Cardinality(LiveHandles) = currentInUse

(* ---------------- the pool under allocate / deallocate ------------------ *)
\* The holder keeps the MsgData* it got in msgData[h] and gives it back with
\* deallocate, so deallocate is only applied to records handed out and not
\* yet given back.

\* msgData[h] = pool.allocate()
RawAllocate(h) ==
    /\ NewHandle(h)
    /\ poolInitialized' = TRUE
    /\ LET msg == allocate
       IN  IF msg = NoRec
           THEN /\ poolSize' = sizeNow
                /\ UNCHANGED << currentInUse, nextFree, refCount, msgData >>
           ELSE LET inUse == (currentInUse + 1) % UINT8_MOD
                IN  /\ currentInUse' = inUse
                    /\ nextFree' = (nextFree + 1) % sizeNow
                    /\ poolSize' = updateAdaptiveLimit(inUse, sizeNow)
                    /\ refCount' = [refCount EXCEPT ![msg] = 0]
                    /\ msgData' = [msgData EXCEPT ![h] = msg]

\* pool.deallocate(msgData[h]); msgData[h] = nullptr
RawDeallocate(h) ==
    /\ msgData[h] # NoRec
    /\ deallocate(msgData[h], refCount)
    /\ msgData' = [msgData EXCEPT ![h] = NoRec]
    /\ UNCHANGED << poolInitialized, nextFree >>

NextRaw ==
    \/ \E h \in Handles : RawAllocate(h) /\ UNCHANGED << schedVars, timeVars >>
    \/ \E h \in Handles : RawDeallocate(h) /\ UNCHANGED << schedVars, timeVars >>

SpecRaw == Init /\ [][NextRaw]_vars

\* C21: under allocate and deallocate of records in use,
\* currentInUse <= poolSize <= poolLimit, and poolSize moves by at most one
\* per call and is never lowered below 4.
C21_PoolWindow ==
    [][/\ currentInUse' <= poolSize' /\ poolSize' <= POOL_LIMIT
       /\ poolInitialized =>
            /\ poolSize' - poolSize \in {-1, 0, 1}
            /\ poolSize' < poolSize => poolSize' >= 4]_vars

\* C21 is exercised where poolSize has been lowered and records are in use
\* again.
C21_Witness ==
    /\ poolInitialized
    /\ poolSize < POOL_LIMIT
    /\ currentInUse = 3
    /\ Cardinality(LiveHandles) = 3

(* ------------------------ queue node conservation ----------------------- *)
\* nodes detached from the queue and not yet recycled: the one whose
\* handler is running
DetachedNodes == IF pc = "on_msg" THEN 1 ELSE 0

\* C22 as stated: msgCount is the length of the queue, every allocated node
\* is on the queue or on the free-list, and at most MAX_MESSAGE_POOL_SIZE
\* nodes are allocated.
C22_NodeConservation ==
    /\ msgCount = Len(msgQueue)
    /\ totalNodes = Len(msgQueue) + freeNodes
    /\ totalNodes <= MAX_MESSAGE_POOL_SIZE

\* C22 amended: the same, except that while on_msg runs the node being
\* handled is on neither list.
C22_NodeConservationWithDetached ==
    /\ msgCount = Len(msgQueue)
    /\ totalNodes = Len(msgQueue) + freeNodes + DetachedNodes
    /\ totalNodes <= MAX_MESSAGE_POOL_SIZE

\* C22 is exercised while a handler runs with every node allocated and
\* another message queued.
C22_Witness ==
    /\ pc = "on_msg"
    /\ totalNodes = MAX_MESSAGE_POOL_SIZE
    /\ Len(msgQueue) > 0

(* ------------------------- the enqueue contract ------------------------- *)
\* enqueueQueuedMessage finds the queue full, or finds the free-list empty
\* with every node allocated
EnqueueRefuses ==
    \/ msgCount >= MAX_MESSAGE_POOL_SIZE
    \/ freeNodes = 0 /\ totalNodes >= MAX_MESSAGE_POOL_SIZE

\* C23: a tell to an ACTIVE task makes one enqueue.  Refused, it leaves the
\* queue, the free-list, msgCount and totalNodes unchanged; accepted, it
\* appends one node for the target at the tail and adds one to msgCount;
\* msgCount never exceeds MAX_MESSAGE_POOL_SIZE.
C23_EnqueueContract ==
    [][/\ msgCount' <= MAX_MESSAGE_POOL_SIZE
       /\ \A dst \in DstIds, type \in MsgTypes, arg \in MsgArgs :
            UserTell(dst, type, arg) /\ WantOfDst(dst) # {} =>
                IF EnqueueRefuses
                THEN /\ UNCHANGED queueVars
                     /\ calls'[Len(calls')].acc = {}
                ELSE /\ Len(msgQueue') = Len(msgQueue) + 1
                     /\ SubSeq(msgQueue', 1, Len(msgQueue)) = msgQueue
                     /\ msgQueue'[Len(msgQueue')].targetTaskId = dst
                     /\ msgCount' = msgCount + 1
                     /\ totalNodes' <= MAX_MESSAGE_POOL_SIZE
                     /\ calls'[Len(calls')].acc = WantOfDst(dst)]_vars

\* C23 is exercised when a handler's tell to an ACTIVE task has just been
\* refused with msgCount below the cap: no node could be obtained.
C23_Witness ==
    /\ pc = "on_msg"
    /\ msgCount < MAX_MESSAGE_POOL_SIZE /\ freeNodes = 0
    /\ Len(calls) > 0
    /\ LET s == Len(calls)
       IN  IsTell(s) /\ calls[s].want # {} /\ calls[s].acc = {}

(* --------------------------- reserved topics ---------------------------- *)
\* Tasks that subscribe to and publish on topic 0 and on the first topic
\* number outside the bitfield, next to an ordinary topic.
EdgeTopics == {0, MAX_TOPICS}

NextTopic ==
    \/ \E t \in Tasks : nextTaskId <= MaxAdmissions /\ Add(t) /\ UNCHANGED << timeVars, poolVars, restVars >>
    \/ Begin /\ UNCHANGED << timeVars, poolVars, restVars >>
    \/ LoopOnce /\ UNCHANGED << timeVars, poolVars, restVars >>
    \/ DeliverNext /\ UNCHANGED << timeVars, poolVars, restVars >>
    \/ HandlerReturn /\ UNCHANGED << timeVars, poolVars, restVars >>
    \/ SelectAndDispatch /\ UNCHANGED << timeVars, poolVars, restVars >>
    \/ StepReturn /\ UNCHANGED << timeVars, poolVars, restVars >>
    \/ \E topic \in EdgeTopics \cup PubTopics, type \in MsgTypes, arg \in MsgArgs :
          UserPublish(topic, type, arg) /\ UNCHANGED << timeVars, poolVars, restVars >>
    \/ \E topic \in {0} \cup SubTopics : UserSubscribe(topic) /\ UNCHANGED << timeVars, poolVars, restVars >>

SpecTopic == InitAdmit /\ [][NextTopic]_vars

\* publish calls with topic 0 or a topic >= MAX_TOPICS
IsEdgePublish(s) ==
    /\ calls[s].dst = 0
    /\ calls[s].topic = 0 \/ calls[s].topic >= MAX_TOPICS

\* C24: a publish with topic 0 or topic >= MAX_TOPICS enqueues nothing and
\* causes no on_msg, whatever the tasks have subscribed to.
C24_EdgeTopicRejected ==
    \A s \in 1..Len(calls) :
        IsEdgePublish(s) =>
            /\ calls[s].acc = {}
            /\ NodesOf(s) = {}
            /\ Untouched(s)

(* ----------------------- the subscription bitfield ---------------------- *)
\* topic numbers passed to subscribe and unsubscribe: both ends of the
\* bitfield, two inner bits and the first number outside
TopicInputs == {0, 1, 2, MAX_TOPICS - 1, MAX_TOPICS}

\* Task::subscribe(topic) on any task object
TaskSubscribe(t, topic) ==
    /\ subscribedTopics' = [subscribedTopics EXCEPT ![t] = subscribe(@, topic)]
    /\ UNCHANGED << taskId, state, remainingTime, cfgVars, listVars, running,
                    queueVars, ctlVars, calls, stepBase, timeVars, poolVars, restVars >>

\* Task::unsubscribe(topic) on any task object
TaskUnsubscribe(t, topic) ==
    /\ subscribedTopics' = [subscribedTopics EXCEPT ![t] = unsubscribe(@, topic)]
    /\ UNCHANGED << taskId, state, remainingTime, cfgVars, listVars, running,
                    queueVars, ctlVars, calls, stepBase, timeVars, poolVars, restVars >>

NextSubs ==
    \/ \E t \in Tasks, topic \in TopicInputs : TaskSubscribe(t, topic)
    \/ \E t \in Tasks, topic \in TopicInputs : TaskUnsubscribe(t, topic)

SpecSubs == Init /\ [][NextSubs]_vars

\* C25 as stated: from every bitfield value and for every topic,
\* subscribe(topic) then unsubscribe(topic) gives the value back.
C25_PairRestores ==
    \A t \in Tasks, topic \in TopicInputs :
        unsubscribe(subscribe(subscribedTopics[t], topic), topic)
            = subscribedTopics[t]

\* C25 amended: the pair gives the value back when the topic's bit was
\* clear (or the topic is outside the bitfield); when the bit was set the
\* pair clears it and leaves the other bits.
C25_PairRestoresClearBit ==
    \A t \in Tasks, topic \in TopicInputs :
        LET before == subscribedTopics[t]
            after == unsubscribe(subscribe(before, topic), topic)
        IN  /\ topic \notin before => after = before
            /\ topic \in before => after = before \ {topic}

\* C25 is exercised on a bitfield with bits set at both ends, one inner bit
\* set and one inner bit clear.
C25_Witness ==
    \E t \in Tasks : subscribedTopics[t] = {0, 2, MAX_TOPICS - 1}

(* -------------------------- suspend and resume -------------------------- *)
\* id, priority, period and subscriptions of t are left alone by the step
KeepsIdentity(t) ==
    /\ taskId'[t] = taskId[t] /\ priority'[t] = priority[t]
    /\ periodMs'[t] = periodMs[t]
    /\ subscribedTopics'[t] = subscribedTopics[t]

\* C26: suspend() takes an ACTIVE task to SUSPENDED and leaves its
\* countdown; while the task stays SUSPENDED no step changes the countdown;
\* resume() takes it back to ACTIVE with remainingTime = periodMs; both
\* calls leave id, priority, period and subscriptions alone.
C26_SuspendResume ==
    [][\A t \in Tasks :
          /\ (Lifecycle(t, "suspend") /\ state[t] = "ACTIVE") =>
                /\ state'[t] = "SUSPENDED"
                /\ remainingTime'[t] = remainingTime[t]
                /\ KeepsIdentity(t)
                /\ resumeState(state'[t]) = "ACTIVE"
          /\ (InList(t) /\ state[t] = "SUSPENDED" /\ state'[t] = "SUSPENDED") =>
                remainingTime'[t] = remainingTime[t]
          /\ (Lifecycle(t, "resume") /\ state[t] = "SUSPENDED") =>
                /\ state'[t] = "ACTIVE"
                /\ remainingTime'[t] = periodMs[t]
                /\ KeepsIdentity(t)]_vars

\* C26 is exercised when a tick is under way for a SUSPENDED task of the
\* list whose countdown is neither 0 nor the period.
C26_Witness ==
    /\ running /\ pc = "deliver"
    /\ \E t \in Tasks :
          /\ InList(t) /\ state[t] = "SUSPENDED"
          /\ 0 < remainingTime[t] /\ remainingTime[t] < periodMs[t]

(* ----------------------------- reset cause ------------------------------ *)
\* the initial states of either build
InitAnyBuild ==
    /\ InitBase
    /\ InitReset /\ avrBuild \in BOOLEAN /\ InitIsr /\ InitMutex /\ InitTimer
    /\ InitMore

\* the bytes the reset-cause register can hold
FlagBytes == 0..(UINT8_MOD - 1)

\* the ResetInfo of the sketch before getResetInfo fills it
NoResetInfo ==
    [resetReason |-> 0, resetTime |-> 0, watchdogTimeout |-> 0, lastTaskId |-> 0,
     optibootResetFlags |-> 0, optibootResetCause |-> 0]

\* a reset: the bootloader leaves the cause flags in the register and the
\* sketch starts again
PlatformReset(flags) ==
    /\ resetFlags' = flags
    /\ resetInfo' = NoResetInfo
    /\ UNCHANGED << schedVarsOnly, timeVars, poolVars, isrVars, mutexVars,
                    timerVars, moreVars >>

\* OS.getResetInfo(info)
GetResetInfo ==
    /\ resetInfo' = getResetInfo
    /\ UNCHANGED << schedVarsOnly, timeVars, poolVars, resetFlags, isrVars,
                    mutexVars, timerVars, moreVars >>

NextReset ==
    \/ \E flags \in FlagBytes : PlatformReset(flags)
    \/ GetResetInfo

SpecReset == InitAnyBuild /\ [][NextReset]_vars

\* the causes whose flag is set in the byte getResetCause reads
CausesSet ==
    LET flags == getResetCauseFlags
    IN  {c \in {RESET_POWER_ON, RESET_EXTERNAL, RESET_BROWN_OUT, RESET_WATCHDOG} :
            \/ c = RESET_POWER_ON /\ HasFlag(flags, RESET_CAUSE_POWER_ON)
            \/ c = RESET_EXTERNAL /\ HasFlag(flags, RESET_CAUSE_EXTERNAL)
            \/ c = RESET_BROWN_OUT /\ HasFlag(flags, RESET_CAUSE_BROWN_OUT)
            \/ c = RESET_WATCHDOG /\ HasFlag(flags, RESET_CAUSE_WATCHDOG)}

\* C27: getResetCause is MULTIPLE when more than one cause flag is set, the
\* enumerator of the flag when exactly one is set, UNKNOWN otherwise; the
\* other bits of the byte do not matter.
C27_ResetCauseDecoding ==
    /\ Cardinality(CausesSet) > 1 => getResetCause = RESET_MULTIPLE
    /\ Cardinality(CausesSet) = 1 => getResetCause \in CausesSet
    /\ Cardinality(CausesSet) = 0 => getResetCause = RESET_UNKNOWN

\* C27 is exercised when getResetInfo has decoded a byte with the watchdog
\* flag as only cause flag and other bits set.
C27_Witness ==
    /\ avrBuild
    /\ resetFlags > RESET_CAUSE_WATCHDOG + RESET_CAUSE_WATCHDOG
    /\ CausesSet = {RESET_WATCHDOG}
    /\ resetInfo.optibootResetFlags = resetFlags
    /\ resetInfo.optibootResetCause = RESET_WATCHDOG

(* ------------------ reference counts and interrupts --------------------- *)
\* ATOMIC_BLOCK disables interrupts with __AVR__; without, it is a plain
\* block and msgData->refCount++ / -- is a load and a store with interrupts
\* enabled between them.  The foreground operation in progress is fgOp; an
\* interrupt routine runs a whole copy or drop.

\* ATOMIC_BLOCK with __AVR__: a SharedMsg operation of the foreground runs
\* whole
FgAtomic ==
    /\ avrBuild
    /\ fgOp.op = "none"
    /\ \/ \E h, g \in Handles : Copy(h, g)
       \/ \E h, g \in Handles : Assign(h, g)
       \/ \E h \in Handles : Drop(h)
    /\ UNCHANGED << avrBuild, fgOp >>

\* SharedMsg h(pool.allocate()): no other object holds the record
FgNewMsg(h) ==
    /\ fgOp.op = "none"
    /\ nextFree < MaxIsrMsgs
    /\ NewMsg(h)
    /\ UNCHANGED << avrBuild, fgOp >>

\* SharedMsg h(g) without __AVR__: msgData(other.msgData), then the load of
\* refCount
FgCopyLoad(h, g) ==
    /\ ~avrBuild
    /\ fgOp.op = "none"
    /\ NewHandle(h)
    /\ msgData[g] # NoRec
    /\ refCount[msgData[g]] < MaxShare
    /\ msgData' = [msgData EXCEPT ![h] = msgData[g]]
    /\ fgOp' = [op |-> "copy", h |-> h, r |-> msgData[g],
                tmp |-> refCount[msgData[g]]]
    /\ UNCHANGED << avrBuild, poolInitialized, poolSize, currentInUse, nextFree,
                    refCount >>

\* the store of refCount + 1
FgCopyStore ==
    /\ fgOp.op = "copy"
    /\ refCount' = [refCount EXCEPT ![fgOp.r] = (fgOp.tmp + 1) % UINT8_MOD]
    /\ fgOp' = IdleOp
    /\ UNCHANGED << avrBuild, poolInitialized, poolSize, currentInUse, nextFree,
                    msgData >>

\* ~SharedMsg without __AVR__: release() up to the load of refCount
FgDropLoad(h) ==
    /\ ~avrBuild
    /\ fgOp.op = "none"
    /\ msgData[h] # NoRec
    /\ \A g \in Handles : g > h => msgData[g] = NoRec
    /\ fgOp' = [op |-> "drop", h |-> h, r |-> msgData[h],
                tmp |-> refCount[msgData[h]]]
    /\ UNCHANGED << avrBuild, poolVars >>

\* the store of refCount - 1, the test for 0, deallocate, msgData = nullptr
FgDropStore ==
    /\ fgOp.op = "drop"
    /\ LET r == fgOp.r
           dec == [refCount EXCEPT ![r] = (fgOp.tmp - 1) % UINT8_MOD]
       IN  IF dec[r] = 0
           THEN deallocate(r, dec)
           ELSE /\ refCount' = dec
                /\ UNCHANGED << poolSize, currentInUse >>
    /\ msgData' = [msgData EXCEPT ![fgOp.h] = NoRec]
    /\ fgOp' = IdleOp
    /\ UNCHANGED << avrBuild, poolInitialized, nextFree >>

\* h = g without __AVR__: up to the load of newData->refCount
FgAssignLoad(h, g) ==
    /\ ~avrBuild
    /\ fgOp.op = "none"
    /\ h # g
    /\ msgData[h] # NoRec /\ msgData[g] # NoRec
    /\ \A k \in Handles : k > h => msgData[k] = NoRec
    /\ refCount[msgData[g]] < MaxShare
    /\ fgOp' = [op |-> "assign_inc", h |-> h, r |-> msgData[g],
                old |-> msgData[h], tmp |-> refCount[msgData[g]]]
    /\ UNCHANGED << avrBuild, poolVars >>

\* the store of newData->refCount + 1, msgData = newData, the load of
\* oldData->refCount
FgAssignStoreInc ==
    /\ fgOp.op = "assign_inc"
    /\ refCount' = [refCount EXCEPT ![fgOp.r] = (fgOp.tmp + 1) % UINT8_MOD]
    /\ msgData' = [msgData EXCEPT ![fgOp.h] = fgOp.r]
    /\ fgOp' = [op |-> "assign_dec", h |-> fgOp.h, r |-> fgOp.old,
                old |-> fgOp.old, tmp |-> refCount'[fgOp.old]]
    /\ UNCHANGED << avrBuild, poolInitialized, poolSize, currentInUse, nextFree >>

\* the store of oldData->refCount - 1, the test for 0, deallocate
FgAssignStoreDec ==
    /\ fgOp.op = "assign_dec"
    /\ LET r == fgOp.r
           dec == [refCount EXCEPT ![r] = (fgOp.tmp - 1) % UINT8_MOD]
       IN  IF dec[r] = 0
           THEN deallocate(r, dec)
           ELSE /\ refCount' = dec
                /\ UNCHANGED << poolSize, currentInUse >>
    /\ fgOp' = IdleOp
    /\ UNCHANGED << avrBuild, poolInitialized, nextFree, msgData >>

\* an interrupt routine copies the SharedMsg g into h
IsrCopy(h, g) ==
    /\ Copy(h, g)
    /\ UNCHANGED << avrBuild, fgOp >>

\* an interrupt routine destroys the SharedMsg h, one the foreground is not
\* working on
IsrDrop(h) ==
    /\ msgData[h] # NoRec
    /\ fgOp.op # "none" => fgOp.h # h
    /\ LET r == msgData[h]
           dec == [refCount EXCEPT ![r] = (@ - 1) % UINT8_MOD]
       IN  IF dec[r] = 0
           THEN deallocate(r, dec)
           ELSE /\ refCount' = dec
                /\ UNCHANGED << poolSize, currentInUse >>
    /\ msgData' = [msgData EXCEPT ![h] = NoRec]
    /\ UNCHANGED << avrBuild, fgOp, poolInitialized, nextFree >>

isrRestVars ==
    << schedVarsOnly, timeVars, resetVars, mutexVars, timerVars, moreVars >>

NextIsr ==
    \/ PoolInBounds /\ FgAtomic /\ UNCHANGED isrRestVars
    \/ \E h \in Handles : PoolInBounds /\ FgNewMsg(h) /\ UNCHANGED isrRestVars
    \/ \E h, g \in Handles : PoolInBounds /\ FgCopyLoad(h, g) /\ UNCHANGED isrRestVars
    \/ FgCopyStore /\ UNCHANGED isrRestVars
    \/ \E h \in Handles : PoolInBounds /\ FgDropLoad(h) /\ UNCHANGED isrRestVars
    \/ FgDropStore /\ UNCHANGED isrRestVars
    \/ \E h, g \in Handles : PoolInBounds /\ FgAssignLoad(h, g) /\ UNCHANGED isrRestVars
    \/ FgAssignStoreInc /\ UNCHANGED isrRestVars
    \/ FgAssignStoreDec /\ UNCHANGED isrRestVars
    \/ \E h, g \in Handles : PoolInBounds /\ IsrCopy(h, g) /\ UNCHANGED isrRestVars
    \/ \E h \in Handles : PoolInBounds /\ IsrDrop(h) /\ UNCHANGED isrRestVars

SpecIsr == InitAnyBuild /\ [][NextIsr]_vars

\* the SharedMsg objects pointing to record r
HandlesOn(r) == {h \in Handles : msgData[h] = r}

\* refCount of r counts the objects on r, given what the foreground
\* operation in progress has still to store
CountsHandles(r) ==
    LET pendingInc == IF fgOp.op = "copy" /\ fgOp.r = r THEN 1 ELSE 0
        pendingDec == IF fgOp.op = "assign_dec" /\ fgOp.r = r THEN 1 ELSE 0
    IN  refCount[r] + pendingInc - pendingDec = Cardinality(HandlesOn(r))

\* C28: no copy, assignment or drop, of the foreground or of an interrupt
\* routine, loses an increment or a decrement: a step that is not an
\* allocation keeps refCount equal to the number of objects on the record.
C28_NoLostUpdate ==
    [][nextFree' = nextFree =>
          \A r \in Records : CountsHandles(r) => CountsHandles(r)']_vars

(* -------------------------------- Mutex --------------------------------- *)
\* locked and owner_id are volatile: without __AVR__ the body of tryLock and
\* of unlock is a sequence of single accesses with interrupts enabled between
\* them.  mtxOp is the call of the foreground in progress.

\* the task ids the callers pass
MutexIds == {0, 1, 2, 3}

\* Mutex::tryLock(task_id), uninterrupted
tryLock(task_id) ==
    IF ~locked
    THEN locked' = TRUE /\ owner_id' = task_id
    ELSE UNCHANGED << locked, owner_id >>

\* Mutex::unlock(task_id), uninterrupted
unlock(task_id) ==
    IF locked /\ owner_id = task_id
    THEN locked' = FALSE /\ owner_id' = 0
    ELSE UNCHANGED << locked, owner_id >>

\* ATOMIC_BLOCK with __AVR__: a call of the foreground runs whole
FgMutexAtomic(task_id) ==
    /\ avrBuild
    /\ mtxOp.op = "none"
    /\ tryLock(task_id) \/ unlock(task_id)
    /\ UNCHANGED << avrBuild, mtxOp >>

\* tryLock without __AVR__: if (!locked)
FgTryLockTest(task_id) ==
    /\ ~avrBuild
    /\ mtxOp.op = "none"
    /\ mtxOp' = IF ~locked THEN [op |-> "set_locked", id |-> task_id] ELSE IdleOp
    /\ UNCHANGED << avrBuild, locked, owner_id >>

\* locked = true
FgTryLockSetLocked ==
    /\ mtxOp.op = "set_locked"
    /\ locked' = TRUE
    /\ mtxOp' = [op |-> "set_owner", id |-> mtxOp.id]
    /\ UNCHANGED << avrBuild, owner_id >>

\* owner_id = task_id; return true
FgTryLockSetOwner ==
    /\ mtxOp.op = "set_owner"
    /\ owner_id' = mtxOp.id
    /\ mtxOp' = IdleOp
    /\ UNCHANGED << avrBuild, locked >>

\* unlock without __AVR__: if (locked && owner_id == task_id)
FgUnlockTest(task_id) ==
    /\ ~avrBuild
    /\ mtxOp.op = "none"
    /\ mtxOp' = IF locked /\ owner_id = task_id
                THEN [op |-> "clear_locked", id |-> task_id]
                ELSE IdleOp
    /\ UNCHANGED << avrBuild, locked, owner_id >>

\* locked = false
FgUnlockClearLocked ==
    /\ mtxOp.op = "clear_locked"
    /\ locked' = FALSE
    /\ mtxOp' = [op |-> "clear_owner", id |-> mtxOp.id]
    /\ UNCHANGED << avrBuild, owner_id >>

\* owner_id = 0
FgUnlockClearOwner ==
    /\ mtxOp.op = "clear_owner"
    /\ owner_id' = 0
    /\ mtxOp' = IdleOp
    /\ UNCHANGED << avrBuild, locked >>

\* tryLock called from an interrupt routine, where the foreground can be
\* interrupted
IsrTryLock(task_id) ==
    /\ avrBuild => mtxOp.op = "none"
    /\ tryLock(task_id)
    /\ UNCHANGED << avrBuild, mtxOp >>

\* unlock called from an interrupt routine
IsrUnlock(task_id) ==
    /\ avrBuild => mtxOp.op = "none"
    /\ unlock(task_id)
    /\ UNCHANGED << avrBuild, mtxOp >>

mutexRestVars ==
    << schedVarsOnly, timeVars, poolVars, resetVars, fgOp, timerVars, moreVars >>

NextMutex ==
    \/ \E id \in MutexIds : FgMutexAtomic(id) /\ UNCHANGED mutexRestVars
    \/ \E id \in MutexIds : FgTryLockTest(id) /\ UNCHANGED mutexRestVars
    \/ FgTryLockSetLocked /\ UNCHANGED mutexRestVars
    \/ FgTryLockSetOwner /\ UNCHANGED mutexRestVars
    \/ \E id \in MutexIds : FgUnlockTest(id) /\ UNCHANGED mutexRestVars
    \/ FgUnlockClearLocked /\ UNCHANGED mutexRestVars
    \/ FgUnlockClearOwner /\ UNCHANGED mutexRestVars
    \/ \E id \in MutexIds : IsrTryLock(id) /\ UNCHANGED mutexRestVars
    \/ \E id \in MutexIds : IsrUnlock(id) /\ UNCHANGED mutexRestVars

SpecMutex == InitAnyBuild /\ [][NextMutex]_vars

\* C29: the Mutex has at most one owner whatever the interleaving: a tryLock
\* takes the mutex only when it is unlocked and then its id is the owner, a
\* locked mutex is released only by unlock(owner), and the owner reads 0
\* whenever the mutex is unlocked.
C29_MutexSingleOwner ==
    [][/\ mtxOp.op = "set_locked" /\ mtxOp'.op = "set_owner" => ~locked
       /\ mtxOp.op = "set_owner" /\ mtxOp'.op = "none" =>
              locked' /\ owner_id' = mtxOp.id
       /\ locked /\ ~locked' =>
              \/ mtxOp.op = "clear_locked" /\ owner_id = mtxOp.id
              \/ mtxOp.op \notin {"clear_locked", "set_owner"}
       /\ mtxOp'.op = "none" /\ ~locked' => owner_id' = 0]_vars

(* -------------------------------- TimerT -------------------------------- *)
\* One TimerT<uint8_t>, one TimerT<uint16_t> and one TimerT<uint32_t>.
\* clockMs is systemTime (what OS.now() returns) over the whole range of
\* uint32_t, as a pair of 16-bit words; startMs and durationMs are pairs of
\* words too.  expired[w] is what the last isExpired() of the timer of
\* width w returned.

\* a + b in uint32_t arithmetic
add32(a, b) ==
    [hi |-> (a.hi + b.hi + ((a.lo + b.lo) \div UINT16_MOD)) % UINT16_MOD,
     lo |-> (a.lo + b.lo) % UINT16_MOD]

\* a >= b, a < b on uint32_t
ge32(a, b) == ~gt32(b, a)
lt32(a, b) == gt32(b, a)

\* static_cast<T>(v) for T of w bits
castT(w, v) ==
    IF w = 8 THEN [hi |-> 0, lo |-> v.lo % UINT8_MOD]
    ELSE IF w = 16 THEN [hi |-> 0, lo |-> v.lo]
    ELSE v

Word0 == [hi |-> 0, lo |-> 0]
Word1 == [hi |-> 0, lo |-> 1]
WordMax == [hi |-> UINT16_MOD - 1, lo |-> UINT16_MOD - 1]

\* isExpired that takes a wrapped counter for an expired timer
isExpired_WrapExpires(w) ==
    LET current_time == castT(w, clockMs)
    IN  IF durationMs[w] = Word0 THEN TRUE
        ELSE IF ge32(current_time, startMs[w])
             THEN ge32(sub32(current_time, startMs[w]), durationMs[w])
             ELSE TRUE

\* TimerT<T>::isExpired for T of w bits.  The operands of the arithmetic
\* are promoted, each result is converted to T where it is assigned to a T.
isExpired(w) ==
    LET current_time == castT(w, clockMs)
        max_value == castT(w, WordMax)
        elapsed_before_overflow ==
            castT(w, add32(sub32(max_value, startMs[w]), Word1))
        elapsed_after_overflow == current_time
        total_elapsed ==
            castT(w, add32(elapsed_before_overflow, elapsed_after_overflow))
    IN  IF durationMs[w] = Word0 THEN TRUE
        ELSE IF ge32(current_time, startMs[w])
             THEN ge32(sub32(current_time, startMs[w]), durationMs[w])
             ELSE IF lt32(total_elapsed, elapsed_before_overflow)
                  THEN TRUE
                  ELSE ge32(total_elapsed, durationMs[w])

\* the values of systemTime and of the durations tried: around 0, around the
\* wrap of 8 bits, of 16 bits and of 32 bits
EdgeWords == {0, 1, UINT8_MOD - 1, UINT16_MOD - 1}
ClockValues == {[hi |-> h, lo |-> l] : h \in {0, UINT16_MOD - 1}, l \in EdgeWords}
Durations(w) ==
    {castT(w, v) : v \in {Word0, Word1, [hi |-> 0, lo |-> UINT8_MOD - 1], WordMax}}

timerRestVars ==
    << schedVarsOnly, timeVars, poolVars, resetVars, isrVars, mutexVars,
       moreVars >>

\* the timer interrupt has advanced systemTime to v
ClockAdvance(v) ==
    /\ v # clockMs
    /\ clockMs' = v
    /\ UNCHANGED << startMs, durationMs, expired >>

\* TimerT<T>::startTimer(d)
StartTimer(w, d) ==
    /\ startMs' = [startMs EXCEPT ![w] = castT(w, clockMs)]
    /\ durationMs' = [durationMs EXCEPT ![w] = d]
    /\ UNCHANGED << clockMs, expired >>

\* a call of TimerT<T>::isExpired()
IsExpiredCall(w) ==
    /\ expired' = [expired EXCEPT ![w] = isExpired(w)]
    /\ UNCHANGED << startMs, durationMs, clockMs >>

NextTimer ==
    \/ \E v \in ClockValues : ClockAdvance(v) /\ UNCHANGED timerRestVars
    \/ \E w \in TimerBits : \E d \in Durations(w) :
           StartTimer(w, d) /\ UNCHANGED timerRestVars
    \/ \E w \in TimerBits : IsExpiredCall(w) /\ UNCHANGED timerRestVars

SpecTimer == Init /\ [][NextTimer]_vars

\* (now - start) mod 2^w for the timer of w bits
ElapsedMod(w) == castT(w, sub32(castT(w, clockMs), startMs[w]))

\* C30: for each width, isExpired() is true iff duration = 0 or
\* (now - start) mod 2^width >= duration, in the wrapped branch too.
C30_ExpiredIsModularElapsed ==
    \A w \in TimerBits :
        isExpired(w) <=>
            (durationMs[w] = Word0 \/ ge32(ElapsedMod(w), durationMs[w]))

\* C30 is exercised when a timer of each width, started before the counter
\* wrapped, is asked after the wrap and has not expired.
C30_Witness ==
    \A w \in TimerBits :
        /\ lt32(castT(w, clockMs), startMs[w])
        /\ durationMs[w] # Word0
        /\ ~isExpired(w)
        /\ ~expired[w]

(* --------------------------- the tick, logged --------------------------- *)
\* loopOnce with the history of the tick: tickLog lists the phases in the
\* order the code runs them, sinceStep[t] counts the ticks begun since the
\* step() of t that is running or has run last (NoTicks: none yet).

tickRestVars ==
    << lastExecutedTaskId, scheduledTime, actualStartTime, delayCount,
       maxDelayMs, poolVars, resetVars, isrVars, mutexVars, timerVars,
       statVars >>

TickConfigure(t, pr) ==
    /\ Configure(t, pr)
    /\ UNCHANGED << systemTime, tickVars, tickRestVars >>

TickAdd(t) ==
    /\ nextTaskId <= MaxAdmissions
    /\ Add(t)
    /\ UNCHANGED << systemTime, tickVars, tickRestVars >>

TickBegin(now) ==
    /\ Begin
    /\ systemTime' = now
    /\ UNCHANGED << tickVars, tickRestVars >>

\* Scheduler::stop
Stop ==
    /\ pc = "idle" /\ running
    /\ running' = FALSE
    /\ UNCHANGED << taskVars, listVars, queueVars, ctlVars, calls, stepBase,
                    systemTime, tickVars, tickRestVars >>

\* loopOnce while not running: the early return
LoopOnceStopped ==
    /\ pc = "idle" /\ ~running
    /\ UNCHANGED vars

\* loopOnce while running: updateSystemTime, the countdowns, feedWatchdog
TickLoopOnce(now) ==
    /\ LoopOnce
    /\ systemTime' = now
    /\ tickLog' = << "time", "decrement", "feed" >>
    /\ sinceStep' = [t \in Tasks |->
            IF sinceStep[t] = NoTicks THEN NoTicks
            ELSE Min(sinceStep[t] + 1, MaxPeriod + 1)]
    /\ UNCHANGED tickRestVars

TickDeliverNext ==
    /\ DeliverNext
    /\ tickLog' = Append(tickLog, IF pc' = "on_msg" THEN "on_msg" ELSE "recycle")
    /\ UNCHANGED << systemTime, sinceStep, tickRestVars >>

TickHandlerReturn ==
    /\ HandlerReturn
    /\ UNCHANGED << systemTime, tickVars, tickRestVars >>

TickDispatch ==
    /\ SelectAndDispatch
    /\ tickLog' = IF pc' = "step" THEN tickLog \o << "select", "step" >>
                  ELSE Append(tickLog, "select")
    /\ UNCHANGED << systemTime, sinceStep, tickRestVars >>

TickStepReturn ==
    /\ StepReturn
    /\ sinceStep' = [sinceStep EXCEPT ![curTask] = 0]
    /\ UNCHANGED << systemTime, tickLog, tickRestVars >>

TickTell(dst, type, arg) ==
    /\ UserTell(dst, type, arg)
    /\ UNCHANGED << systemTime, tickVars, tickRestVars >>

NextTick ==
    \/ \E t \in Tasks, pr \in Profiles : TickConfigure(t, pr)
    \/ \E t \in Tasks : TickAdd(t)
    \/ \E now \in Clock : TickBegin(now)
    \/ Stop
    \/ LoopOnceStopped
    \/ \E now \in Clock : TickLoopOnce(now)
    \/ TickDeliverNext
    \/ TickHandlerReturn
    \/ TickDispatch
    \/ TickStepReturn
    \/ \E dst \in DstIds, type \in MsgTypes, arg \in MsgArgs : TickTell(dst, type, arg)

SpecTick == Init /\ [][NextTick]_vars

\* the phases of a tick in the order of the claim, for a log of n
\* deliveries that ended with or without a step()
TickOrder(n, stepped) ==
    << "time", "decrement", "feed" >> \o [i \in 1..n |-> "on_msg"]
        \o (IF stepped THEN << "select", "step" >> ELSE << "select" >>)

IsPrefix(a, b) == Len(a) <= Len(b) /\ a = SubSeq(b, 1, Len(a))

\* C31: a loopOnce made while running refreshes the time, decrements once
\* the countdown of every ACTIVE task that has one, feeds the watchdog once,
\* delivers, then selects and dispatches; at most one step() per tick, and
\* none before delivery has finished; while not running nothing moves.
C31_LoopOnceOrder ==
    [][/\ pc = "idle" /\ pc' = "deliver" =>
              /\ running
              /\ \A t \in Tasks :
                     remainingTime'[t] =
                         IF InList(t) /\ state[t] = "ACTIVE" /\ remainingTime[t] > 0
                         THEN remainingTime[t] - 1 ELSE remainingTime[t]
       /\ \E n \in 0..Len(tickLog'), stepped \in BOOLEAN :
              IsPrefix([i \in 1..Len(tickLog') |->
                           IF tickLog'[i] = "recycle" THEN "on_msg" ELSE tickLog'[i]],
                       TickOrder(n, stepped))
       /\ pc # "step" /\ pc' = "step" =>
              /\ pc = "deliver" /\ msgCount = 0
              /\ tickLog'[Len(tickLog')] = "step"
       /\ ~running /\ ~running' =>
              UNCHANGED << remainingTime, state, systemTime, queueVars, ctlVars,
                           tickLog >>]_vars

\* C31 is exercised by a tick that delivered a message to a handler and then
\* dispatched a task.
C31_Witness ==
    /\ pc = "step"
    /\ tickLog = TickOrder(1, TRUE)

\* C32: the task whose step() runs has its countdown reloaded to its period,
\* and at least period ticks have begun since its previous step(), however
\* long it was deferred.
C32_BoundedCatchUp ==
    pc = "step" =>
        /\ remainingTime[curTask] = periodMs[curTask]
        /\ sinceStep[curTask] = NoTicks \/ sinceStep[curTask] >= periodMs[curTask]

\* C32 is exercised when a task runs that was deferred beyond its period.
C32_Witness ==
    /\ pc = "step"
    /\ sinceStep[curTask] # NoTicks
    /\ sinceStep[curTask] > periodMs[curTask]
    /\ remainingTime[curTask] = periodMs[curTask]

(* ------------------- the node of the message handled -------------------- *)
\* C33: from the entry into on_msg to its return the node of the message
\* being handled is outside the free-list and the queue, whatever the
\* handler enqueues (every node it enqueues comes off the free-list or is
\* newly allocated), and the message it sees does not change; the node joins
\* the free-list when the handler returns.
C33_HandledNodeNotFree ==
    [][/\ pc = "deliver" /\ pc' = "on_msg" =>
              /\ freeNodes' = freeNodes
              /\ curMsg' = Head(msgQueue)
       /\ pc = "on_msg" /\ pc' = "on_msg" =>
              /\ curMsg' = curMsg
              /\ freeNodes' + Len(msgQueue') < totalNodes'
              /\ Len(msgQueue') >= Len(msgQueue)
              /\ Len(msgQueue') - Len(msgQueue) =
                     (freeNodes - freeNodes') + (totalNodes' - totalNodes)
       /\ pc = "on_msg" /\ pc' # "on_msg" =>
              /\ pc' = "deliver"
              /\ freeNodes' = freeNodes + 1]_vars

\* C33 is exercised when the handler has enqueued a message while its own
\* node was the only one not in the queue.
C33_Witness ==
    /\ pc = "on_msg"
    /\ curMsg # NoMsg
    /\ freeNodes = 0
    /\ Len(calls) > curMsg.call
    /\ calls[Len(calls)].acc # {}
    /\ Len(msgQueue) = totalNodes - 1

(* ------------------------- execution statistics ------------------------- *)
\* updateTaskStatistics(task, execStart) with execTime16 the execution time
\* clamped to 16 bits.  uint16_t operands are promoted to int where int has
\* 32 bits and to unsigned int where it has 16 (__AVR__).

UINT16_MAX == UINT16_MOD - 1

\* uint32_t diff = execTime16 - avgExecTimeUs; diff / 1000
adjustmentOf(execTime16, avg) ==
    IF execTime16 >= avg THEN (execTime16 - avg) \div 1000
    ELSE IF avrBuild
         THEN ((execTime16 - avg) % UINT16_MOD) \div 1000
         ELSE UINT32_DIV_1000 + ((UINT32_MOD_1000 - (avg - execTime16)) \div 1000)

\* the three fields of the task after updateTaskStatistics
updateTaskStatistics(t, execTime16) ==
    LET rc == IF runCount[t] < UINT16_MAX THEN runCount[t] + 1 ELSE runCount[t]
        mx == IF execTime16 > maxExecTimeUs[t] THEN execTime16 ELSE maxExecTimeUs[t]
        ema == avgExecTimeUs[t] + adjustmentOf(execTime16, avgExecTimeUs[t])
        sma == (avgExecTimeUs[t] * (rc - 1) + execTime16) \div rc
        av == IF rc = 1 THEN execTime16
              ELSE IF rc = UINT16_MAX
                   THEN (IF ema < 0 THEN 0 ELSE IF ema > UINT16_MAX THEN UINT16_MAX ELSE ema)
                   ELSE (IF sma > UINT16_MAX THEN UINT16_MAX ELSE sma)
    IN  [runCount |-> rc, maxExecTimeUs |-> mx, avgExecTimeUs |-> av]

\* execution times and averages tried; run counts tried: a new task, and a
\* task one run before and at saturation
StatTimes == {0, 1, 999, 1000, 2000, UINT16_MAX}
StatRuns == {0, UINT16_MAX - 1, UINT16_MAX}

\* the statistics a task can have after rc runs
StatInit(rc) ==
    IF rc = 0 THEN {[runCount |-> 0, maxExecTimeUs |-> 0, avgExecTimeUs |-> 0]}
    ELSE {[runCount |-> rc, maxExecTimeUs |-> UINT16_MAX, avgExecTimeUs |-> av] :
             av \in StatTimes}

InitAnyStats ==
    /\ InitBase
    /\ InitReset /\ avrBuild \in BOOLEAN /\ InitIsr /\ InitMutex /\ InitTimer
    /\ InitTick
    /\ \E f \in [Tasks -> UNION {StatInit(rc) : rc \in StatRuns}] :
           /\ runCount = [t \in Tasks |-> f[t].runCount]
           /\ maxExecTimeUs = [t \in Tasks |-> f[t].maxExecTimeUs]
           /\ avgExecTimeUs = [t \in Tasks |-> f[t].avgExecTimeUs]

\* executeTask: updateTaskStatistics at the end of a run of t
RunStats(t, execTime16) ==
    /\ \/ runCount[t] < MaxRuns
       \/ runCount[t] >= UINT16_MAX - 1 /\ avgExecTimeUs[t] \in StatTimes
    /\ LET r == updateTaskStatistics(t, execTime16)
       IN  /\ runCount' = [runCount EXCEPT ![t] = r.runCount]
           /\ maxExecTimeUs' = [maxExecTimeUs EXCEPT ![t] = r.maxExecTimeUs]
           /\ avgExecTimeUs' = [avgExecTimeUs EXCEPT ![t] = r.avgExecTimeUs]
    /\ UNCHANGED << schedVarsOnly, timeVars, poolVars, resetVars, isrVars,
                    mutexVars, timerVars, tickVars >>

NextStats == \E t \in Tasks, execTime16 \in StatTimes : RunStats(t, execTime16)

SpecStats == InitAnyStats /\ [][NextStats]_vars

\* C34: runCount saturates at 65535 and, once it has, the new average lies
\* between the old average and the sample; a sample below the average never
\* raises it.
C34_AverageMovesTowardSample ==
    [][\A t \in Tasks, execTime16 \in StatTimes :
          RunStats(t, execTime16) =>
              /\ runCount'[t] <= UINT16_MAX
              /\ runCount'[t] >= runCount[t]
              /\ runCount[t] = UINT16_MAX =>
                     /\ Min(avgExecTimeUs[t], execTime16) <= avgExecTimeUs'[t]
                     /\ avgExecTimeUs'[t] <= Max(avgExecTimeUs[t], execTime16)]_vars

(* ---------------------- the budget gate at selection -------------------- *)
\* the tasks whose countdown lets them run
DueSet == {t \in ListSet : isActive(t) /\ remainingTime[t] = 0}

replyRestVars == << timeVars, poolVars, restVars >>

\* Task::tell from step() or on_msg()
ReplyTell(dst, type, arg) ==
    /\ InUser
    /\ ApplyQueue(sendMessage(dst, type, arg, 0))
    /\ UNCHANGED << taskVars, listVars, running, ctlVars, calls, stepBase >>

\* processMessages: detach the head; enter on_msg, or recycle the node
ReplyDeliverNext ==
    /\ pc = "deliver" /\ msgCount # 0
    /\ LET node == Head(msgQueue)
           target == deliveryTarget(node)
       IN  /\ msgQueue' = Tail(msgQueue)
           /\ msgCount' = msgCount - 1
           /\ IF target # NoTask
              THEN /\ pc' = "on_msg" /\ curTask' = target /\ curMsg' = node
                   /\ UNCHANGED freeNodes
              ELSE /\ freeNodes' = freeNodes + 1
                   /\ UNCHANGED ctlVars
    /\ UNCHANGED << taskVars, listVars, running, totalNodes, calls, stepBase >>

NextReply ==
    \/ \E t \in Tasks, pr \in Profiles : Configure(t, pr) /\ UNCHANGED replyRestVars
    \/ \E t \in Tasks : nextTaskId <= MaxAdmissions /\ Add(t) /\ UNCHANGED replyRestVars
    \/ Begin /\ UNCHANGED replyRestVars
    \/ LoopOnce /\ UNCHANGED replyRestVars
    \/ ReplyDeliverNext /\ UNCHANGED replyRestVars
    \/ HandlerReturn /\ UNCHANGED replyRestVars
    \/ SelectAndDispatch /\ UNCHANGED replyRestVars
    \/ StepReturn /\ UNCHANGED replyRestVars
    \/ \E dst \in DstIds, type \in MsgTypes, arg \in MsgArgs :
           ReplyTell(dst, type, arg) /\ UNCHANGED replyRestVars

SpecReply == Init /\ [][NextReply]_vars

\* the kernel goes on and user code returns; the application calls loopOnce
\* again and again; nothing obliges user code to call tell
SpecReplyFair ==
    /\ SpecReply
    /\ WF_vars(LoopOnce /\ UNCHANGED replyRestVars)
    /\ WF_vars(ReplyDeliverNext /\ UNCHANGED replyRestVars)
    /\ WF_vars(HandlerReturn /\ UNCHANGED replyRestVars)
    /\ WF_vars(SelectAndDispatch /\ UNCHANGED replyRestVars)
    /\ WF_vars(StepReturn /\ UNCHANGED replyRestVars)

\* C36: the delivery phase of a tick ends: from processMessages the tick
\* reaches task selection, also when handlers call tell.
C36_DeliveryTerminates == (pc = "deliver") ~> (pc \in {"idle", "step"})

(* ------------------------ dispatch with priorities ---------------------- *)
\* Task::setPriority(uint8_t), called by the application before add
setPriority(prio) == prio % 16

SetPriority(t, prio) ==
    /\ pc = "idle" /\ ~InList(t) /\ taskId[t] = 0
    /\ priority[t] = PRIORITY_NORMAL
    /\ priority' = [priority EXCEPT ![t] = setPriority(prio)]
    /\ UNCHANGED << taskId, state, remainingTime, periodMs, maxMessageBudget,
                    subscribedTopics, listVars, running, queueVars, ctlVars,
                    calls, stepBase >>

NextStarve ==
    \/ \E t \in Tasks, pr \in Profiles : Configure(t, pr) /\ UNCHANGED replyRestVars
    \/ \E t \in Tasks, prio \in SelPriorities : SetPriority(t, prio) /\ UNCHANGED replyRestVars
    \/ \E t \in Tasks : nextTaskId <= MaxAdmissions /\ Add(t) /\ UNCHANGED replyRestVars
    \/ Begin /\ UNCHANGED replyRestVars
    \/ LoopOnce /\ UNCHANGED replyRestVars
    \/ SelectAndDispatch /\ UNCHANGED replyRestVars
    \/ StepReturn /\ UNCHANGED replyRestVars

SpecStarve == Init /\ [][NextStarve]_vars

\* the application calls loopOnce again and again, the kernel goes on and
\* step() returns
SpecStarveFair ==
    /\ SpecStarve
    /\ WF_vars(LoopOnce /\ UNCHANGED replyRestVars)
    /\ WF_vars(SelectAndDispatch /\ UNCHANGED replyRestVars)
    /\ WF_vars(StepReturn /\ UNCHANGED replyRestVars)

\* C37: an ACTIVE task of the running scheduler whose countdown is 0 and
\* whose budget is at most MAX_MESSAGE_POOL_SIZE gets its step() called.
C37_NoStarvation ==
    \A t \in Tasks :
        (running /\ InList(t) /\ isActive(t) /\ remainingTime[t] = 0
            /\ getMaxMessageBudget(t) <= MAX_MESSAGE_POOL_SIZE)
        ~> (pc = "step" /\ curTask = t)

(* ------------------- publish and tell at the queue cap ------------------ *)
\* C38: a publish enqueues a node for every ACTIVE subscriber of the topic
\* or for none of them.
C38_PublishAllOrNothing ==
    [][\A topic \in PubTopics, type \in MsgTypes, arg \in MsgArgs :
         UserPublish(topic, type, arg) =>
             \/ calls'[Len(calls')].acc = WantOfTopic(topic)
             \/ /\ calls'[Len(calls')].acc = {}
                /\ UNCHANGED queueVars]_vars

\* C39: a tell to an ACTIVE task with msgCount below MAX_MESSAGE_POOL_SIZE
\* is accepted, also from on_msg with every node allocated.
C39_EnqueueBelowCapSucceeds ==
    [][\A dst \in DstIds, type \in MsgTypes, arg \in MsgArgs :
         (UserTell(dst, type, arg) /\ WantOfDst(dst) # {}
              /\ msgCount < MAX_MESSAGE_POOL_SIZE) =>
             /\ msgCount' = msgCount + 1
             /\ calls'[Len(calls')].acc = WantOfDst(dst)]_vars

(* ------------------------- the allocation cursor ------------------------ *)
\* C40: nextFree is an index of the array of poolLimit records, and when
\* allocate() takes a record (and computes the modulo) poolSize is not 0
\* and the record is one of the array.
C40_CursorInsideArray ==
    /\ nextFree \in 0..(POOL_LIMIT - 1)
    /\ allocate # NoRec => sizeNow # 0 /\ allocate \in Records

\* C40 is exercised where poolSize has been lowered to the cursor, which
\* then points past the records allocate() counts as the pool.
C40_Witness ==
    /\ poolInitialized
    /\ nextFree >= poolSize
    /\ allocate # NoRec

====
